---- MODULE Spec2Model ----
(***************************************************************************)
(* Relay: a reverse proxy / API gateway in front of AI inference upstreams. *)
(* The module models the request-processing engine: the circuit breaker     *)
(* used by both dispatchers, the single-target dispatcher, the load         *)
(* balancer with health probing, the response cache, the rate limiter and   *)
(* the response transformer.                                                *)
(*                                                                          *)
(* Time is a clock `now`.  Each subsystem has its own specification, which  *)
(* leaves the other subsystems' variables unchanged.                        *)
(***************************************************************************)
EXTENDS Integers, Sequences, FiniteSets, TLC

VARIABLES
    now,        \* the clock, in milliseconds
    rcb,        \* Relay.cb: the single-target dispatcher's breaker
    rreq,       \* single-target dispatcher: one record per request goroutine
    streak,     \* history: consecutive most recent upstream responses >= 500
    streakAt,   \* history: the time the streak reached the trip threshold
    openedAt,   \* history: the time the breaker last tripped to OPEN
    healthy,    \* load balancer: Target.Healthy, per target
    cb,         \* load balancer: Target.CircuitBreaker, per target
    current,    \* load balancer: LoadBalancer.current, the round-robin counter
    strategy,   \* load balancer: LoadBalancer.strategy
    probing,    \* load balancer: the targets whose health probe is in flight
    lbreq,      \* load balancer: one record per request goroutine
    rlCfg,      \* config.RateLimit of the published snapshot
    redisOn,    \* rdb != nil: Redis is enabled and connected
    limiter,    \* rate limiter, in-memory: limiter, lastRPS and lastB
    tat,        \* rate limiter, distributed: the value of key "rate:<client>"
    verdict,    \* rate limiter: the answer to the latest request
    win,        \* history: the observer's window over one client's requests
    transformCfg, \* pipeline: the TransformConfig main builds
    preq,       \* pipeline: one record per request goroutine
    cache,      \* pipeline: the keys "cache:<hash>" of the shared store
    out,        \* pipeline: the response the latest step wrote to a client, if any
    answered,   \* history: the bodies of the POSTs that missed and were answered
                \* 200 by the upstream less than the cache's time to live ago
    viperCfg,   \* config: what viper holds of the file it read last
    store,      \* config: Store.cfg, the published snapshot (but its RateLimit)
    creq,       \* config: one record per request goroutine, with what it read
    loaded,     \* history: the configurations published so far
    reloads,    \* history: the file changes handled, and how the last one ended
    chain,      \* chain: the request that walks the handlers main composed
    doc,        \* transformer: a parsed body, the rule applied to it, the result
    lat,        \* load balancer: LoadBalancer.latency, and the requests served
    row,        \* history: per target, its latest answers >= 500 in a row
                \* (up to the trip threshold)
    logreq,     \* recorder: the request RequestLoggingMiddleware records
    blim,       \* rate limiter: a configuration and what buildLimit makes of it
    draw,       \* load balancer: the weights of a filtered list, rand.Intn's
                \* number and the target weighted returns for it
    apikey,     \* keys: the record stored under "apikey:<key>"
    areq,       \* keys: one record per request goroutine and its incrementUsage
    admin,      \* keys: the key manager's RevokeKey
    admitted,   \* history: the requests AuthMiddleware has let pass
    shared      \* cache behind authentication: whether AuthMiddleware is in
                \* the chain, the request in the chain, and (history) the
                \* request each stored response was saved for

varsRelay == <<rcb, rreq, streak, streakAt, openedAt>>
varsLB == <<healthy, cb, current, strategy, probing, lbreq>>
varsRate == <<rlCfg, redisOn, limiter, tat, verdict, win>>
varsPipe == <<transformCfg, preq, cache, out, answered>>
varsCfg == <<viperCfg, store, creq, loaded, reloads>>
varsFn == <<blim, draw>>
varsKey == <<apikey, areq, admin, admitted, shared>>
varsAux == <<lat, row, logreq, varsFn, varsKey>>
varsMore == <<varsCfg, chain, doc, varsAux>>
vars == <<now, varsRelay, varsLB, varsRate, varsPipe, varsMore>>

----------------------------------------------------------------------------
(* Bounds of the model *)

\* request goroutines in flight at once (slots are reused by later requests)
NReq == 2
\* clock ticks in a run of SpecRelay / SpecLB
MaxTicks == 4
\* targets of the load balancer
NTargets == 2
\* clients of the rate limiter
NClients == 2
\* seconds in a run of SpecRate
MaxRateTicks == 5
\* the clock's short step, in milliseconds
SmallTick == 100
\* distinct request bodies
NBodies == 1
\* short steps of the clock in a run of SpecPipe
MaxPipeTicks == 1
\* changes of the configuration file in a run of SpecConfig
MaxReloads == 2
\* requests in a run of SpecLat
MaxLatRequests == 3
\* items of an array in the bodies of SpecMask
NItems == 1

(* Program constants *)

\* gobreaker.Settings.Timeout: 30 * time.Second
Timeout == 30000
\* ReadyToTrip: c.ConsecutiveFailures >= 5
TruncateLen == 12
MaxNum == 7
MaxDen == 4
MaxBurst == 3
MaxWeight == 3
MaxListed == 3
MaxQuota == 2
MaxAdmitted == 4
TripThreshold == 5
\* gobreaker.Settings.MaxRequests is left 0, which gobreaker reads as 1
MaxRequests == 1
\* the health ticker's period, time.NewTicker(10 * time.Second); the clock's step
TickMillis == 10000
\* time.Second, in the clock's unit
Second == 1000
\* the cache's time to live, time.Hour
CacheTTL == 3600000
\* the save goroutine's deadline, 2 * time.Second
SaveDeadline == 2000
\* NewLatencyTracker(100): the samples a tracker keeps
WindowSize == 100
\* getAverageLatency's default, and leastLatency's first bestLatency (1 h)
LatencyDefault == 100
Hour == 3600000
StatusOK == 200
StatusUnauthorized == 401
StatusForbidden == 403
StatusNotFound == 404
StatusTooManyRequests == 429
StatusBadGateway == 502
StatusServiceUnavailable == 503
StatusInternalServerError == 500

Min(a, b) == IF a < b THEN a ELSE b
Max(a, b) == IF a > b THEN a ELSE b

----------------------------------------------------------------------------
(* The circuit breaker (github.com/sony/gobreaker v1.0.0), as configured by *)
(* proxy.New and NewLoadBalancer: Interval 0, Timeout 30 s, MaxRequests 1,  *)
(* ReadyToTrip at 5 consecutive failures.                                   *)

\* gobreaker.NewCircuitBreaker: CLOSED, generation 0, counts cleared, zero expiry
NewCircuitBreaker ==
    [state |-> "closed", generation |-> 0, requests |-> 0,
     consecSucc |-> 0, consecFail |-> 0, expiry |-> 0]

\* Counts.Requests and Counts.ConsecutiveSuccesses are read only in HALF-OPEN
\* (against MaxRequests) and are cleared on every state change, so they are
\* kept in HALF-OPEN only, where MaxRequests bounds them
CountIn(c, n) == IF c.state = "half-open" THEN Min(n + 1, MaxRequests) ELSE 0

\* toNewGeneration: generation++, counts.clear(), expiry by state
\* (CLOSED with Interval 0 and HALF-OPEN: zero; OPEN: now + Timeout)
toNewGeneration(b, t) ==
    [b EXCEPT !.generation = @ + 1, !.requests = 0,
              !.consecSucc = 0, !.consecFail = 0,
              !.expiry = IF b.state = "open" THEN t + Timeout ELSE 0]

setState(b, s, t) ==
    IF b.state = s THEN b ELSE toNewGeneration([b EXCEPT !.state = s], t)

\* currentState: OPEN becomes HALF-OPEN once expiry is before now
currentStateAtOnce(b, t) ==
    IF b.state = "open" THEN setState(b, "half-open", t) ELSE b
currentState(b, t) ==
    IF b.state = "open" /\ b.expiry < t THEN setState(b, "half-open", t) ELSE b

ReadyToTripLate(b) == b.consecFail >= TripThreshold + 1
ReadyToTrip(b) == b.consecFail >= TripThreshold

\* beforeRequest: the breaker after the call, the generation and the error
beforeRequestUnlimited(b, t) ==
    LET c == currentState(b, t) IN
    IF c.state = "open"
    THEN [cb |-> c, gen |-> c.generation, err |-> "ErrOpenState"]
    ELSE [cb |-> [c EXCEPT !.requests = CountIn(c, @)], gen |-> c.generation, err |-> "nil"]
beforeRequest(b, t) ==
    LET c == currentState(b, t) IN
    IF c.state = "open"
    THEN [cb |-> c, gen |-> c.generation, err |-> "ErrOpenState"]
    ELSE IF c.state = "half-open" /\ c.requests >= MaxRequests
    THEN [cb |-> c, gen |-> c.generation, err |-> "ErrTooManyRequests"]
    ELSE [cb |-> [c EXCEPT !.requests = CountIn(c, @)], gen |-> c.generation, err |-> "nil"]

onSuccess(c, t) ==
    LET d == [c EXCEPT !.consecSucc = CountIn(c, @), !.consecFail = 0] IN
    CASE c.state = "closed" -> d
      [] c.state = "half-open" ->
            IF d.consecSucc >= MaxRequests THEN setState(d, "closed", t) ELSE d
      [] OTHER -> c

onFailure(c, t) ==
    LET d == [c EXCEPT !.consecFail = @ + 1, !.consecSucc = 0] IN
    CASE c.state = "closed" -> IF ReadyToTrip(d) THEN setState(d, "open", t) ELSE d
      [] c.state = "half-open" -> setState(c, "open", t)
      [] OTHER -> c

\* afterRequest: a result of an older generation is dropped
afterRequest(b, before, success, t) ==
    LET c == currentState(b, t) IN
    IF c.generation # before THEN c
    ELSE IF success THEN onSuccess(c, t) ELSE onFailure(c, t)

\* classifyStatus / the LB's closure: a status >= 500 is a failure
classifyStatus(status) == status < StatusInternalServerError

----------------------------------------------------------------------------
(* The single-target dispatcher, Relay.ServeHTTP.  A request goroutine is   *)
(* at "idle"/"done" (no request, or the previous one answered), "checked"   *)
(* (past the State() test), "admitted" (beforeRequest returned nil) or      *)
(* "forwarded" (the proxy has sent the request upstream).                   *)

Reqs == 1..NReq

\* what the upstream answers; TransportError is a failed round trip, which the
\* proxy's ErrorHandler turns into 502 written through the status recorder
TransportError == 0
UpstreamOutcomes == {StatusOK, StatusInternalServerError, TransportError}
RecordedStatus(o) == IF o = TransportError THEN StatusBadGateway ELSE o

\* gen: the generation beforeRequest returned; status: what the client got;
\* wrote: rec.wrote; writes: the responses written to the client's writer
IdleReq == [pc |-> "idle", gen |-> 0, status |-> 0, wrote |-> FALSE, writes |-> 0]

\* the responses ServeHTTP writes itself for the error Execute returned:
\* 503 for the breaker's own errors, 502 for another error unless the
\* recorder saw the proxy write
ErrorWritesAlways(err, wrote) == IF err = "nil" THEN 0 ELSE 1
ErrorWrites(err, wrote) ==
    IF err = "nil" THEN 0
    ELSE IF err \in {"ErrOpenState", "ErrTooManyRequests"} THEN 1
    ELSE IF wrote THEN 0 ELSE 1

InitRelay ==
    /\ rcb = NewCircuitBreaker
    /\ rreq = [r \in Reqs |-> IdleReq]
    /\ streak = 0
    /\ streakAt = 0
    /\ openedAt = 0

\* if g.cb.State() == gobreaker.StateOpen { 503; return }
RelayEnter(r) ==
    /\ rreq[r].pc \in {"idle", "done"}
    /\ LET c == currentState(rcb, now) IN
       /\ rcb' = c
       /\ rreq' = [rreq EXCEPT ![r] =
              IF c.state = "open"
              THEN [IdleReq EXCEPT !.pc = "done", !.status = StatusServiceUnavailable,
                                   !.writes = 1]
              ELSE [IdleReq EXCEPT !.pc = "checked"]]
    /\ UNCHANGED <<now, streak, streakAt, openedAt, varsLB, varsRate, varsPipe, varsMore>>

\* g.cb.Execute: beforeRequest; on ErrOpenState / ErrTooManyRequests 503
RelayAdmit(r) ==
    /\ rreq[r].pc = "checked"
    /\ LET res == beforeRequest(rcb, now) IN
       /\ rcb' = res.cb
       /\ rreq' = [rreq EXCEPT ![r] =
              IF res.err = "nil"
              THEN [@ EXCEPT !.pc = "admitted", !.gen = res.gen]
              ELSE [@ EXCEPT !.pc = "done", !.status = StatusServiceUnavailable,
                             !.writes = ErrorWrites(res.err, FALSE)]]
    /\ UNCHANGED <<now, streak, streakAt, openedAt, varsLB, varsRate, varsPipe, varsMore>>

\* g.proxy.ServeHTTP(rec, r): the request goes to the upstream
RelayForward(r) ==
    /\ rreq[r].pc = "admitted"
    /\ rreq' = [rreq EXCEPT ![r] = [@ EXCEPT !.pc = "forwarded"]]
    /\ UNCHANGED <<now, rcb, streak, streakAt, openedAt, varsLB, varsRate, varsPipe, varsMore>>

\* the upstream's answer, or the ErrorHandler's 502, is written to the client
\* through the recorder, which sets rec.wrote; then afterRequest(generation,
\* classifyStatus(rec.status) == nil), and ServeHTTP's handling of the error
RelayComplete(r, o) ==
    /\ rreq[r].pc = "forwarded"
    /\ LET s == RecordedStatus(o)
           c == afterRequest(rcb, rreq[r].gen, classifyStatus(s), now)
           err == IF classifyStatus(s) THEN "nil" ELSE "upstream failure" IN
       /\ rcb' = c
       /\ rreq' = [rreq EXCEPT ![r] =
              [IdleReq EXCEPT !.pc = "done", !.status = s, !.wrote = TRUE,
                              !.writes = 1 + ErrorWrites(err, TRUE)]]
       /\ streak' = IF classifyStatus(s) THEN 0 ELSE Min(streak + 1, TripThreshold)
       /\ streakAt' = IF ~classifyStatus(s) /\ streak + 1 = TripThreshold
                      THEN now ELSE streakAt
       /\ openedAt' = IF c.state = "open" /\ rcb.state # "open" THEN now ELSE openedAt
    /\ UNCHANGED <<now, varsLB, varsRate, varsPipe, varsMore>>

\* time passes
RelayTick ==
    /\ now < MaxTicks * TickMillis
    /\ now' = now + TickMillis
    /\ UNCHANGED <<varsRelay, varsLB, varsRate, varsPipe, varsMore>>

NextRelay ==
    \/ \E r \in Reqs : RelayEnter(r)
    \/ \E r \in Reqs : RelayAdmit(r)
    \/ \E r \in Reqs : RelayForward(r)
    \/ \E r \in Reqs, o \in UpstreamOutcomes : RelayComplete(r, o)
    \/ RelayTick

----------------------------------------------------------------------------
(* The load balancer, LoadBalancer.ServeHTTP, with its health probes.       *)

Targets == 1..NTargets

\* NewLoadBalancer: a configured weight <= 0 becomes 1; here target 1 has
\* weight 3 and every other target weight 1
Weight(t) == IF t = 1 THEN 3 ELSE 1

\* the strategies selectTarget switches on (any other string is round-robin)
Strategies == {"round-robin", "weighted", "random"}

\* current is only read modulo the number of selectable targets, so it is
\* kept modulo a common multiple of 1..NTargets
RECURSIVE Factorial(_)
Factorial(n) == IF n <= 1 THEN 1 ELSE n * Factorial(n - 1)

IdleLBReq == [pc |-> "idle", target |-> 0, gen |-> 0, status |-> 0]

\* no target has answered yet
NoRows == [t \in Targets |-> 0]

\* the row of a target after it answered with status s
Answers(n, s) == IF classifyStatus(s) THEN 0 ELSE Min(n + 1, TripThreshold)

\* NewLoadBalancer: every target healthy, breakers CLOSED, the ticker not yet fired
InitLB ==
    /\ healthy = [t \in Targets |-> TRUE]
    /\ cb = [t \in Targets |-> NewCircuitBreaker]
    /\ current = 0
    /\ strategy \in Strategies
    /\ probing = {}
    /\ lbreq = [r \in Reqs |-> IdleLBReq]

\* selectTarget's filter: t.Healthy.Load() && t.CircuitBreaker.State() != StateOpen
SelectableHealthyOnly(h, c) == h
Selectable(h, c) == h /\ c.state # "open"

RECURSIVE FilterSeq(_, _, _)
\* the targets i..NTargets that pass the filter, in order
FilterSeq(i, hs, cs) ==
    IF i > NTargets THEN <<>>
    ELSE (IF Selectable(hs[i], cs[i]) THEN <<i>> ELSE <<>>) \o FilterSeq(i + 1, hs, cs)

RECURSIVE TotalWeight(_)
TotalWeight(ts) == IF ts = <<>> THEN 0 ELSE Weight(Head(ts)) + TotalWeight(Tail(ts))

\* roundRobin: idx := (lb.current.Add(1) - 1) % len(targets)
roundRobinFromOne(ts, cur) == ts[((cur + 1) % Len(ts)) + 1]
roundRobin(ts, cur) == ts[(cur % Len(ts)) + 1]

RECURSIVE weightedWalk(_, _)
\* weighted: random -= t.Weight; if random < 0 return t
weightedWalk(ts, random) ==
    IF random - Weight(Head(ts)) < 0 \/ Len(ts) = 1 THEN Head(ts)
    ELSE weightedWalk(Tail(ts), random - Weight(Head(ts)))

\* the targets the strategy may return from the filtered list ts
Picks(ts, cur, strat) ==
    CASE strat = "weighted" -> {weightedWalk(ts, d) : d \in 0..(TotalWeight(ts) - 1)}
      [] strat = "random" -> {ts[i] : i \in 1..Len(ts)}
      [] OTHER -> {roundRobin(ts, cur)}

\* selectTarget: State() is called on every target's breaker (an OPEN breaker
\* past its expiry becomes HALF-OPEN); 503 when no target passes the filter
LBSelect(r) ==
    /\ lbreq[r].pc \in {"idle", "done"}
    /\ LET cs == [t \in Targets |-> IF healthy[t] THEN currentState(cb[t], now) ELSE cb[t]]
           ts == FilterSeq(1, healthy, cs) IN
       /\ cb' = cs
       /\ IF ts = <<>>
          THEN /\ lbreq' = [lbreq EXCEPT ![r] =
                      [IdleLBReq EXCEPT !.pc = "done", !.status = StatusServiceUnavailable]]
               /\ UNCHANGED current
          ELSE /\ \E t \in Picks(ts, current, strategy) :
                      lbreq' = [lbreq EXCEPT ![r] =
                          [IdleLBReq EXCEPT !.pc = "selected", !.target = t]]
               /\ current' = IF strategy \in {"weighted", "random"} THEN current
                             ELSE (current + 1) % Factorial(NTargets)
    /\ UNCHANGED <<now, healthy, strategy, probing, varsRelay, varsRate, varsPipe, varsMore>>

\* target.CircuitBreaker.Execute: beforeRequest; ErrOpenState / ErrTooManyRequests -> 503
LBAdmit(r) ==
    /\ lbreq[r].pc = "selected"
    /\ LET t == lbreq[r].target
           res == beforeRequest(cb[t], now) IN
       /\ cb' = [cb EXCEPT ![t] = res.cb]
       /\ lbreq' = [lbreq EXCEPT ![r] =
              IF res.err = "nil"
              THEN [@ EXCEPT !.pc = "admitted", !.gen = res.gen]
              ELSE [IdleLBReq EXCEPT !.pc = "done", !.status = StatusServiceUnavailable]]
    /\ UNCHANGED <<now, healthy, current, strategy, probing, varsRelay, varsRate, varsPipe, varsMore>>

\* target.Proxy.ServeHTTP(rec, r): the request goes to the target
LBForward(r) ==
    /\ lbreq[r].pc = "admitted"
    /\ lbreq' = [lbreq EXCEPT ![r] = [@ EXCEPT !.pc = "forwarded"]]
    /\ UNCHANGED <<now, healthy, cb, current, strategy, probing, varsRelay, varsRate, varsPipe, varsMore>>

\* the target's answer (or the default ErrorHandler's 502) reaches the client
\* through the recorder; afterRequest counts a status >= 500 as a failure
Complete(r, o) ==
    /\ lbreq[r].pc = "forwarded"
    /\ LET t == lbreq[r].target
           s == RecordedStatus(o) IN
       /\ cb' = [cb EXCEPT ![t] = afterRequest(@, lbreq[r].gen, classifyStatus(s), now)]
       /\ lbreq' = [lbreq EXCEPT ![r] =
              [IdleLBReq EXCEPT !.pc = "done", !.status = s]]
    /\ UNCHANGED <<now, healthy, current, strategy, probing, lat, logreq, varsFn, varsKey,
                   varsRelay, varsRate, varsPipe, varsCfg, chain, doc>>

\* SpecLB keeps no history of the answers
LBComplete(r, o) == Complete(r, o) /\ UNCHANGED row

\* healthCheckLoop: every 10 s one checkHealth goroutine per target; a probe
\* ends within its 5 s deadline, before the next tick
LBTick ==
    /\ now < MaxTicks * TickMillis
    /\ probing = {}
    /\ now' = now + TickMillis
    /\ probing' = Targets
    /\ UNCHANGED <<healthy, cb, current, strategy, lbreq, varsRelay, varsRate, varsPipe, varsMore>>

\* what a probe's GET <target>/health ends with
ProbeOutcomes == {StatusOK, StatusInternalServerError, TransportError}

\* checkHealth: healthy iff the probe got a response with status < 500
ProbeHealthyAnyResponse(o) == o # TransportError
ProbeHealthy(o) == o # TransportError /\ o < StatusInternalServerError

checkHealth(t, o) ==
    /\ t \in probing
    /\ healthy' = [healthy EXCEPT ![t] = ProbeHealthy(o)]
    /\ probing' = probing \ {t}
    /\ UNCHANGED <<now, cb, current, strategy, lbreq, varsRelay, varsRate, varsPipe, varsMore>>

NextLB ==
    \/ \E r \in Reqs : LBSelect(r)
    \/ \E r \in Reqs : LBAdmit(r)
    \/ \E r \in Reqs : LBForward(r)
    \/ \E r \in Reqs, o \in UpstreamOutcomes : LBComplete(r, o)
    \/ LBTick
    \/ \E t \in Targets, o \in ProbeOutcomes : checkHealth(t, o)

\* the round-robin balancer with the history of each target's answers
InitRow == InitLB /\ strategy = "round-robin"

RowComplete(r, o) ==
    /\ Complete(r, o)
    /\ row' = [row EXCEPT ![lbreq[r].target] = Answers(@, RecordedStatus(o))]

NextRow ==
    \/ \E r \in Reqs : LBSelect(r)
    \/ \E r \in Reqs : LBAdmit(r)
    \/ \E r \in Reqs : LBForward(r)
    \/ \E r \in Reqs, o \in UpstreamOutcomes : RowComplete(r, o)
    \/ LBTick
    \/ \E t \in Targets, o \in ProbeOutcomes : checkHealth(t, o)

----------------------------------------------------------------------------
(* The load balancer under the least-latency strategy, with the latency    *)
(* trackers.  The trackers are written by every strategy and read by this   *)
(* one only, so SpecLB leaves them out.  Latencies are in milliseconds.     *)

\* what time.Since(start) comes to for a request
Durations == {50, 200}

\* LatencyTracker.Add: the oldest sample leaves a full window
AddKeepsAll(samples, d) == Append(samples, d)
Add(samples, d) ==
    IF Len(samples) >= WindowSize THEN Append(Tail(samples), d)
    ELSE Append(samples, d)

RECURSIVE Total(_)
Total(samples) == IF samples = <<>> THEN 0 ELSE Head(samples) + Total(Tail(samples))

\* LatencyTracker.Average: 0 for no samples
Average(samples) ==
    IF Len(samples) = 0 THEN 0 ELSE Total(samples) \div Len(samples)

\* getAverageLatency: the default is for a target without a tracker
getAverageLatency(trackers, t) ==
    IF t \notin DOMAIN trackers THEN LatencyDefault ELSE Average(trackers[t])

\* leastLatency's loop: best (0 for nil) and bestLatency after the targets ts
RECURSIVE leastScan(_, _, _, _)
leastScan(ts, trackers, best, bestLatency) ==
    IF ts = <<>> THEN best
    ELSE LET avg == getAverageLatency(trackers, Head(ts)) IN
         IF avg < bestLatency
         THEN leastScan(Tail(ts), trackers, Head(ts), avg)
         ELSE leastScan(Tail(ts), trackers, best, bestLatency)

leastLatency(ts, trackers) ==
    LET best == leastScan(ts, trackers, 0, Hour) IN
    IF best = 0 THEN ts[1] ELSE best

\* NewLoadBalancer: one empty tracker per target
NoLatency == [samples |-> [t \in Targets |-> <<>>], n |-> 0]

\* a breaker that five failures at time 0 have tripped
Tripped == onFailure([NewCircuitBreaker EXCEPT !.consecFail = TripThreshold - 1], 0)

\* a balancer some way into its run: flags and breakers as probes and
\* failures may have left them, the probes of the next round in flight, and
\* no request returned yet (a sample is recorded when ServeHTTP returns)
InitLat ==
    /\ healthy \in [Targets -> BOOLEAN]
    /\ cb \in [Targets -> {NewCircuitBreaker, Tripped}]
    /\ current = 0
    /\ strategy = "least-latency"
    /\ probing = Targets
    /\ lbreq = [r \in Reqs |-> IdleLBReq]
    /\ lat = NoLatency

\* a tracker after n requests, the i-th of which took i ms
Samples(n) == [i \in 1..n |-> i]

\* a CLOSED breaker that has counted four failures in a row
Failing == [NewCircuitBreaker EXCEPT !.consecFail = TripThreshold - 1]

\* the same balancer with trackers that are empty or one sample short of
\* full, and breakers that may be one failure from tripping
InitTrack ==
    /\ healthy \in [Targets -> BOOLEAN]
    /\ cb \in [Targets -> {NewCircuitBreaker, Failing, Tripped}]
    /\ current = 0
    /\ strategy = "least-latency"
    /\ probing = Targets
    /\ lbreq = [r \in Reqs |-> IdleLBReq]
    /\ \E w \in [Targets -> {<<>>, Samples(WindowSize - 1)}] :
           lat = [samples |-> w, n |-> 0]

\* selectTarget under least-latency; 503 when no target passes the filter
LatSelect(r) ==
    /\ lbreq[r].pc \in {"idle", "done"}
    /\ lat.n < MaxLatRequests
    /\ LET cs == [t \in Targets |-> IF healthy[t] THEN currentState(cb[t], now) ELSE cb[t]]
           ts == FilterSeq(1, healthy, cs) IN
       /\ cb' = cs
       /\ lbreq' = [lbreq EXCEPT ![r] =
              IF ts = <<>>
              THEN [IdleLBReq EXCEPT !.pc = "done", !.status = StatusServiceUnavailable]
              ELSE [IdleLBReq EXCEPT !.pc = "selected",
                                     !.target = leastLatency(ts, lat.samples)]]
    /\ lat' = [lat EXCEPT !.n = @ + 1]
    /\ UNCHANGED <<now, healthy, current, strategy, probing, row, logreq, varsFn, varsKey,
                   varsRelay, varsRate, varsPipe, varsCfg, chain, doc>>

\* Execute's beforeRequest; when it refuses, ServeHTTP answers 503 and
\* returns, and the deferred recordLatency stores time.Since(start)
LatAdmit(r, d) ==
    /\ lbreq[r].pc = "selected"
    /\ LET t == lbreq[r].target
           res == beforeRequest(cb[t], now) IN
       /\ cb' = [cb EXCEPT ![t] = res.cb]
       /\ IF res.err = "nil"
          THEN /\ lbreq' = [lbreq EXCEPT ![r] = [@ EXCEPT !.pc = "admitted", !.gen = res.gen]]
               /\ UNCHANGED lat
          ELSE /\ lbreq' = [lbreq EXCEPT ![r] =
                      [IdleLBReq EXCEPT !.pc = "done", !.target = t,
                                        !.status = StatusServiceUnavailable]]
               /\ lat' = [lat EXCEPT !.samples[t] = Add(@, d)]
    /\ UNCHANGED <<now, healthy, current, strategy, probing, row, logreq, varsFn, varsKey,
                   varsRelay, varsRate, varsPipe, varsCfg, chain, doc>>

\* the forward and the target's answer, afterRequest, and the deferred
\* recordLatency
LatComplete(r, o, d) ==
    /\ lbreq[r].pc = "admitted"
    /\ LET t == lbreq[r].target
           s == RecordedStatus(o) IN
       /\ cb' = [cb EXCEPT ![t] = afterRequest(@, lbreq[r].gen, classifyStatus(s), now)]
       /\ lbreq' = [lbreq EXCEPT ![r] = [IdleLBReq EXCEPT !.pc = "done", !.status = s]]
       /\ lat' = [lat EXCEPT !.samples[t] = Add(@, d)]
    /\ UNCHANGED <<now, healthy, current, strategy, probing, row, logreq, varsFn, varsKey,
                   varsRelay, varsRate, varsPipe, varsCfg, chain, doc>>

NextLat ==
    \/ \E r \in Reqs : LatSelect(r)
    \/ \E r \in Reqs, d \in Durations : LatAdmit(r, d)
    \/ \E r \in Reqs, o \in UpstreamOutcomes, d \in Durations : LatComplete(r, o, d)
    \/ \E t \in Targets, o \in ProbeOutcomes : checkHealth(t, o)

----------------------------------------------------------------------------
(* The rate limiter (pkg/middleware/ratelimit.go).                          *)
(*                                                                          *)
(* config.RateLimit is [enabled, num, den, burst]: RPS is the rational      *)
(* num/den in lowest terms.  Without Redis the limiter is one process-wide  *)
(* golang.org/x/time/rate token bucket; with Redis it is redis_rate's GCRA  *)
(* script on the key "rate:<client>".                                       *)

Clients == 1..NClients

\* the valid and invalid settings the model runs under
RateConfigs ==
    { [enabled |-> TRUE, num |-> 2, den |-> 1, burst |-> 2],
      [enabled |-> TRUE, num |-> 3, den |-> 2, burst |-> 1],
      [enabled |-> TRUE, num |-> 1, den |-> 2, burst |-> 1],
      [enabled |-> TRUE, num |-> 2, den |-> 1, burst |-> 0],
      [enabled |-> TRUE, num |-> 0, den |-> 1, burst |-> 2],
      [enabled |-> FALSE, num |-> 2, den |-> 1, burst |-> 2] }

CeilDiv(n, d) == (n + d - 1) \div d

\* burst := cfg.RateLimit.Burst; if burst < 1 { burst = 1 }
ClampBurst(b) == IF b < 1 THEN 1 ELSE b

\* one token of the in-memory bucket, in the integer unit the model counts
\* tokens in: a bucket of rate num/den gains num units per millisecond
TokenUnit(l) == Second * l.den

\* the limiter variable before the first request: nil
NoLimiter == [built |-> FALSE, num |-> 0, den |-> 1, burst |-> 0, tokens |-> 0, last |-> 0]

\* rate.NewLimiter(rate.Limit(cfg.RateLimit.RPS), burst): a full bucket
NewLimiterEmpty(cfg, b) ==
    [built |-> TRUE, num |-> cfg.num, den |-> cfg.den, burst |-> b, tokens |-> 0,
     last |-> 0]
NewLimiter(cfg, b) ==
    [built |-> TRUE, num |-> cfg.num, den |-> cfg.den, burst |-> b,
     tokens |-> b * Second * cfg.den, last |-> 0]

\* rate.Limiter.advance: the tokens at time t, at most burst
advanceUncapped(l, t) == l.tokens + (t - l.last) * l.num
advance(l, t) == Min(l.burst * TokenUnit(l), l.tokens + (t - l.last) * l.num)

\* rate.Limiter.Allow at time t: take one token if there is one; the bucket
\* is left alone when there is none
Allow(l, t) ==
    LET tokens == advance(l, t) - TokenUnit(l) IN
    IF tokens < 0
    THEN [ok |-> FALSE, lim |-> l]
    ELSE [ok |-> TRUE, lim |-> [l EXCEPT !.tokens = tokens, !.last = t]]

\* limiter == nil || cfg.RateLimit.RPS != lastRPS || burst != lastB
StaleWhenNil(l, cfg, b) == ~l.built
Stale(l, cfg, b) ==
    \/ ~l.built
    \/ l.num * cfg.den # cfg.num * l.den
    \/ l.burst # b

\* the answer of the middleware: pass to the next handler, or 429
Answer(kind, passed, retry) == [allow |-> kind, pass |-> passed, retry |-> retry]

\* the in-memory handler
RateLimitMemory(l, cfg, t) ==
    IF ~cfg.enabled THEN [lim |-> l, ans |-> Answer("off", TRUE, 0)]
    ELSE IF cfg.num <= 0 THEN [lim |-> l, ans |-> Answer("invalid", FALSE, 0)]
    ELSE LET b == ClampBurst(cfg.burst)
             l0 == IF Stale(l, cfg, b) THEN NewLimiter(cfg, b) ELSE l
             a == Allow(l0, t)
         IN  IF a.ok
             THEN [lim |-> a.lim, ans |-> Answer("allowed", TRUE, 0)]
             ELSE [lim |-> a.lim, ans |-> Answer("denied", FALSE, 0)]

\* buildLimit: Rate per Period (milliseconds) and Burst
buildLimitUnclamped(cfg) ==
    IF cfg.num <= 0 THEN [ok |-> FALSE, rate |-> 0, burst |-> 0, period |-> 0]
    ELSE IF cfg.num < cfg.den
    THEN [ok |-> TRUE, rate |-> 1, burst |-> cfg.burst,
          period |-> CeilDiv(cfg.den, cfg.num) * Second]
    ELSE [ok |-> TRUE, rate |-> CeilDiv(cfg.num, cfg.den),
          burst |-> cfg.burst, period |-> Second]
buildLimit(cfg) ==
    IF cfg.num <= 0 THEN [ok |-> FALSE, rate |-> 0, burst |-> 0, period |-> 0]
    ELSE IF cfg.num < cfg.den
    THEN [ok |-> TRUE, rate |-> 1, burst |-> ClampBurst(cfg.burst),
          period |-> CeilDiv(cfg.den, cfg.num) * Second]
    ELSE [ok |-> TRUE, rate |-> CeilDiv(cfg.num, cfg.den),
          burst |-> ClampBurst(cfg.burst), period |-> Second]

\* redis_rate's allowN script with cost 1.  The stored value (0: no key) and
\* the script's times are kept multiplied by limit.rate, so that
\* emission_interval = period / rate is the integer limit.period.
AllowN(stored, limit, t) ==
    LET nowS == t * limit.rate
        tatS == Max(stored, nowS)
        new_tat == tatS + limit.period
        allow_at == new_tat - limit.period * limit.burst
        diff == nowS - allow_at
    IN  IF diff < 0
        THEN [allowed |-> 0, tat |-> stored, retry_after |-> 0 - diff]
        ELSE [allowed |-> 1, tat |-> IF new_tat - nowS > 0 THEN new_tat ELSE stored,
              retry_after |-> 0]

\* Retry-After: res.RetryAfter rounded up to whole seconds
RetrySecondsFloor(retry_after, limit) == retry_after \div (limit.rate * Second)
RetrySeconds(retry_after, limit) == CeilDiv(retry_after, limit.rate * Second)

\* what the shared store does with an Allow call: it answers, it is not
\* reached, or it runs the script and the answer misses the 2 s deadline
StoreOutcomes == {"answered", "unreachable", "late"}

\* err != nil: log, and pass the request to the next handler
OnStoreErrorDeny == Answer("error", FALSE, 0)
OnStoreError == Answer("error", TRUE, 0)

\* the distributed handler for the client whose key holds stored
RateLimitRedis(stored, cfg, t, outcome) ==
    IF ~cfg.enabled THEN [tat |-> stored, ans |-> Answer("off", TRUE, 0)]
    ELSE LET limit == buildLimit(cfg) IN
         IF ~limit.ok THEN [tat |-> stored, ans |-> Answer("invalid", FALSE, 0)]
         ELSE LET res == AllowN(stored, limit, t) IN
              CASE outcome = "unreachable" ->
                       [tat |-> stored, ans |-> OnStoreError]
                [] outcome = "late" ->
                       [tat |-> res.tat, ans |-> OnStoreError]
                [] OTHER ->
                       IF res.allowed = 0
                       THEN [tat |-> stored,
                             ans |-> Answer("denied", FALSE,
                                            RetrySeconds(res.retry_after, limit))]
                       ELSE [tat |-> res.tat, ans |-> Answer("allowed", TRUE, 0)]

\* the middleware NewRateLimiter returns: its state after the request of
\* client c and its answer
RateLimit(c, outcome) ==
    IF redisOn
    THEN LET x == RateLimitRedis(tat[c], rlCfg, now, outcome) IN
         [limiter |-> limiter, tat |-> [tat EXCEPT ![c] = x.tat], ans |-> x.ans]
    ELSE LET x == RateLimitMemory(limiter, rlCfg, now) IN
         [limiter |-> x.lim, tat |-> tat, ans |-> x.ans]

\* the store is called only by the distributed handler with a valid limit
CallsStore == redisOn /\ rlCfg.enabled /\ rlCfg.num > 0

Outcomes == IF CallsStore THEN StoreOutcomes ELSE {"answered"}

(* The observer of SpecRate: from the moment it starts it counts the        *)
(* requests of one client that were passed on.                              *)

WatchedClient == CHOOSE c \in Clients : TRUE

\* the bucket client c draws from is full at time t
BucketFull(c, t) ==
    IF redisOn
    THEN tat[c] <= t * buildLimit(rlCfg).rate
    ELSE \/ Stale(limiter, rlCfg, ClampBurst(rlCfg.burst))
         \/ advance(limiter, t) = limiter.burst * TokenUnit(limiter)

NotWatching ==
    [on |-> FALSE, start |-> 0, passed |-> 0, full |-> FALSE, alone |-> TRUE,
     errors |-> FALSE]

InitRate ==
    /\ rlCfg \in RateConfigs
    /\ redisOn \in BOOLEAN
    /\ limiter = NoLimiter
    /\ tat = [c \in Clients |-> 0]
    /\ verdict = [client |-> WatchedClient, ans |-> Answer("off", TRUE, 0)]
    /\ win = NotWatching

\* the observer starts a window on a limiter that is enabled
Watch ==
    /\ ~win.on
    /\ rlCfg.enabled
    /\ win' = [NotWatching EXCEPT !.on = TRUE, !.start = now,
                                  !.full = BucketFull(WatchedClient, now)]
    /\ UNCHANGED <<now, rlCfg, redisOn, limiter, tat, verdict,
                   varsRelay, varsLB, varsPipe, varsMore>>

\* the window stops counting at the first request a store error lets through
Counted(w, c, ans) ==
    IF ~w.on \/ w.errors THEN w
    ELSE IF c # WatchedClient
    THEN [w EXCEPT !.alone = @ /\ (redisOn \/ ans.allow # "allowed")]
    ELSE [w EXCEPT !.passed = IF ans.pass THEN @ + 1 ELSE @,
                   !.errors = @ \/ ans.allow = "error"]

\* one request of client c goes through the limiter
RateRequest(c, outcome) ==
    LET x == RateLimit(c, outcome) IN
    /\ limiter' = x.limiter
    /\ tat' = x.tat
    /\ verdict' = [client |-> c, ans |-> x.ans]
    /\ win' = Counted(win, c, x.ans)
    /\ UNCHANGED <<now, rlCfg, redisOn, varsRelay, varsLB, varsPipe, varsMore>>

\* time passes: a second, or a short step from a whole second.  A key whose
\* value is not after the clock reads as no key: the script takes
\* max(tat, now), and the key expires ceil(reset_after) seconds after it is set
Expired(t) == [c \in Clients |->
                   IF tat[c] <= t * buildLimit(rlCfg).rate THEN 0 ELSE tat[c]]

RateTick(d) ==
    /\ now + d <= MaxRateTicks * Second
    /\ d = SmallTick => now % Second = 0
    /\ now' = now + d
    /\ tat' = IF redisOn THEN Expired(now + d) ELSE tat
    /\ UNCHANGED <<rlCfg, redisOn, limiter, verdict, win,
                   varsRelay, varsLB, varsPipe, varsMore>>

NextRate ==
    \/ \E c \in Clients, o \in Outcomes : RateRequest(c, o)
    \/ \E d \in {SmallTick, Second} : RateTick(d)
    \/ Watch


----------------------------------------------------------------------------
(* Bodies.  A body is a sequence of tokens, each a pair: the braces of a    *)
(* JSON object, its members <<key, value>> in the order they are written    *)
(* (the value decoded), or a run of text that is not a JSON object.  A      *)
(* response may arrive from the upstream in several chunks, each one Write. *)

\* a decoded JSON value: a string (its characters; a mark such as "<email>"
\* stands for a run of characters that matches the pattern of that name), a
\* map (key -> value), an array ("0", "1", ... -> value), or nil
NoKids == [k \in {} |-> 0]
String(s) == [t |-> "string", s |-> s, kids |-> NoKids]
Object(m) == [t |-> "object", s |-> <<>>, kids |-> m]
Array(m) == [t |-> "array", s |-> <<>>, kids |-> m]
Nil == [t |-> "nil", s |-> <<>>, kids |-> NoKids]

LBrace == <<"{", "">>
RBrace == <<"}", "">>
TextBody(msg) == << <<"text", msg>> >>

IsMember(tok) == tok[1] \notin {"{", "}", "text"}

\* json.Unmarshal(body, &data) with data a map: err == nil
ValidObject(body) ==
    /\ Len(body) >= 2
    /\ body[1] = LBrace
    /\ body[Len(body)] = RBrace
    /\ \A i \in 2..(Len(body) - 1) : IsMember(body[i])

\* json.Unmarshal: the map of a valid object; of a repeated key the last
\* member stays
Unmarshal(body) ==
    LET members == SubSeq(body, 2, Len(body) - 1)
        last(k) == CHOOSE i \in 1..Len(members) :
                       /\ members[i][1] = k
                       /\ \A j \in (i + 1)..Len(members) : members[j][1] # k
    IN  [k \in {members[i][1] : i \in 1..Len(members)} |-> members[last(k)][2]]

\* the keys of the model in the order json.Marshal writes them (sorted)
KeyOrder == <<"api_key", "id", "messages", "model", "note", "token", "user">>

\* json.Marshal of a map: its members sorted by key
Marshal(data) ==
    LET keys == SelectSeq(KeyOrder, LAMBDA k : k \in DOMAIN data) IN
    <<LBrace>> \o [i \in 1..Len(keys) |-> <<keys[i], data[keys[i]]>>] \o <<RBrace>>

\* maskString: with no pattern the first and the last 4 characters stay, of
\* a string of more than 8; a pattern is taken as the set of characters it
\* matches, each replaced
Stars == <<"*", "*", "*">>
RECURSIVE ReplaceAll(_, _, _)
ReplaceAll(s, pattern, by) ==
    IF s = <<>> THEN <<>>
    ELSE (IF Head(s) \in pattern THEN by ELSE <<Head(s)>>)
             \o ReplaceAll(Tail(s), pattern, by)

maskString(s, pattern) ==
    IF pattern = {}
    THEN IF Len(s) <= 8 THEN Stars
         ELSE SubSeq(s, 1, 4) \o Stars \o SubSeq(s, Len(s) - 3, Len(s))
    ELSE ReplaceAll(s, pattern, Stars)

\* getValueAtPath: down the maps along the parts of the path; nil where a
\* part is missing or the value reached is not a map
RECURSIVE getValue(_, _)
getValue(v, parts) ==
    IF parts = <<>> THEN v
    ELSE IF v.t # "object" THEN Nil
    ELSE getValue(IF Head(parts) \in DOMAIN v.kids THEN v.kids[Head(parts)] ELSE Nil,
                  Tail(parts))

getValueAtPath(data, path) == getValue(Object(data), path)

\* m with key k set to v
Put(m, k, v) == [x \in DOMAIN m \cup {k} |-> IF x = k THEN v ELSE m[x]]

\* setValueAtPath: a missing part on the way becomes an empty map; a part
\* whose value is not a map is stepped over, the walk staying where it is
RECURSIVE setValueAtPath(_, _, _)
setValueAtPath(data, path, value) ==
    LET part == Head(path) IN
    IF Len(path) = 1 THEN Put(data, part, value)
    ELSE LET made == IF part \in DOMAIN data THEN data
                     ELSE Put(data, part, Object(NoKids))
         IN  IF made[part].t = "object"
             THEN Put(made, part,
                      Object(setValueAtPath(made[part].kids, Tail(path), value)))
             ELSE setValueAtPath(made, Tail(path), value)

\* deleteValueAtPath: nothing happens where the way is not a map
RECURSIVE deleteValueAtPath(_, _)
deleteValueAtPath(data, path) ==
    LET part == Head(path) IN
    IF Len(path) = 1 THEN [x \in DOMAIN data \ {part} |-> data[x]]
    ELSE IF part \in DOMAIN data /\ data[part].t = "object"
    THEN Put(data, part, Object(deleteValueAtPath(data[part].kids, Tail(path))))
    ELSE data

existsAtPath(data, path) == getValueAtPath(data, path) # Nil

\* applyRule
applyRule(data, rule) ==
    CASE rule.type = "add" -> setValueAtPath(data, rule.path, rule.value)
      [] rule.type = "remove" -> deleteValueAtPath(data, rule.path)
      [] rule.type = "replace" ->
             IF existsAtPath(data, rule.path)
             THEN setValueAtPath(data, rule.path, rule.value)
             ELSE data
      [] rule.type = "mask" ->
             LET val == getValueAtPath(data, rule.path) IN
             IF val # Nil /\ val.t = "string"
             THEN setValueAtPath(data, rule.path, String(maskString(val.s, rule.pattern)))
             ELSE data
      [] OTHER -> data

RECURSIVE applyRules(_, _)
applyRules(data, rules) ==
    IF rules = <<>> THEN data
    ELSE applyRules(applyRule(data, Head(rules)), Tail(rules))

\* the keys of the model whose lower-case form contains "password",
\* "secret", "token" or "key"
SensitiveKeys == {"token", "api_key"}

\* the five patterns of maskSensitiveFields: the marks of the model that
\* stand for a match of one of them
SensitivePatterns == {"<email>", "<phone>", "<ssn>", "<card>", "<key32>"}

Masked == String(<<"***MASKED***">>)

\* maskRecursive: the value of a sensitive key is replaced and not visited;
\* maps and arrays are walked; for a string the result of ReplaceAllString
\* is assigned to the parameter, which leaves the string in the document
maskRecursiveTop(v) ==
    IF v.t = "object"
    THEN Object([k \in DOMAIN v.kids |->
                    IF k \in SensitiveKeys THEN Masked ELSE v.kids[k]])
    ELSE v
RECURSIVE maskRecursive(_)
maskRecursive(v) ==
    CASE v.t = "object" ->
             Object([k \in DOMAIN v.kids |->
                        IF k \in SensitiveKeys THEN Masked
                        ELSE maskRecursive(v.kids[k])])
      [] v.t = "array" -> Array([k \in DOMAIN v.kids |-> maskRecursive(v.kids[k])])
      [] OTHER -> v

\* maskSensitiveFields(data)
maskSensitiveFields(data) == maskRecursive(Object(data)).kids

\* TransformConfig; rules are the ResponseRules
TransformOff ==
    [enabled |-> FALSE, rules |-> <<>>, mask |-> FALSE, allowed |-> {}, blocked |-> {},
     requestRules |-> <<>>, removeHeaders |-> {}, addHeaders |-> {},
     replaceHeaders |-> {}]
TransformPlain == [TransformOff EXCEPT !.enabled = TRUE]
TransformFull ==
    [TransformPlain EXCEPT
        !.rules = << [type |-> "add", path |-> <<"model">>, value |-> String(<<"m">>),
                      pattern |-> {}] >>,
        !.mask = TRUE, !.blocked = {"/admin"}]
TransformConfigs == {TransformOff, TransformPlain, TransformFull}

Paths == {"/v1/chat", "/admin"}

\* the patterns of the model: one that matches every path, patterns that
\* match the one path they name, and one regexp.Compile rejects
InvalidPatterns == {"["}
Matches(pattern, path) == pattern = ".*" \/ pattern = path

\* compilePatterns: a pattern that does not compile is left out
compilePatterns(patterns) == patterns \ InvalidPatterns

\* isPathAllowed on the compiled patterns
isPathAllowed(path, allowed, blocked) ==
    IF allowed = {} /\ blocked = {} THEN TRUE
    ELSE IF \E p \in blocked : Matches(p, path) THEN FALSE
    ELSE IF allowed # {} THEN \E p \in allowed : Matches(p, path)
    ELSE TRUE

\* the path check of TransformMiddleware's handler
PathAllowed(cfg, path) ==
    isPathAllowed(path, compilePatterns(cfg.allowed), compilePatterns(cfg.blocked))

\* transformHeaders on headers held as pairs <<name, value>>: Del, Add, Set
transformHeaders(headers, cfg) ==
    LET removed == { h \in headers : h[1] \notin cfg.removeHeaders }
        added == removed \cup cfg.addHeaders
    IN  { h \in added : \A x \in cfg.replaceHeaders : x[1] # h[1] }
            \cup cfg.replaceHeaders

\* io.ReadAll(r.Body) leaves the body drained; r.Body = io.NopCloser(
\* bytes.NewBuffer(bodyBytes)) puts the bytes back
RestoreNothing(bodyBytes) == <<>>
Restore(bodyBytes) == bodyBytes

\* transformRequestBody: the bytes of r.Body afterwards.  With no request
\* rule and no masking the body is not read; a body that is not a JSON
\* object is put back; otherwise the body is the re-encoded map
transformRequestBody(body, cfg) ==
    IF cfg.requestRules = <<>> /\ ~cfg.mask THEN body
    ELSE IF ~ValidObject(body) THEN Restore(body)
    ELSE LET data == applyRules(Unmarshal(body), cfg.requestRules) IN
         Marshal(IF cfg.mask THEN maskSensitiveFields(data) ELSE data)

\* transformResponseWrapper.Write(b) with the buffer holding body (b
\* included): what it writes to the writer it wraps
Write(cfg, json, body, b) ==
    IF json /\ ValidObject(body)
    THEN LET data == applyRules(Unmarshal(body), cfg.rules) IN
         Marshal(IF cfg.mask THEN maskSensitiveFields(data) ELSE data)
    ELSE b

\* the Writes of the chunks of one response, one after the other
RECURSIVE WriteAll(_, _, _, _)
WriteAll(cfg, json, chunks, buffered) ==
    IF chunks = <<>> THEN <<>>
    ELSE LET body == buffered \o Head(chunks) IN
         Write(cfg, json, body, Head(chunks))
             \o WriteAll(cfg, json, Tail(chunks), body)

RECURSIVE Concat(_)
Concat(chunks) == IF chunks = <<>> THEN <<>> ELSE Head(chunks) \o Concat(Tail(chunks))

\* what reaches the writer outside the transformer for an upstream response
Delivered(cfg, resp) ==
    IF cfg.enabled THEN WriteAll(cfg, resp.json, resp.chunks, <<>>)
    ELSE Concat(resp.chunks)

\* the responses of the upstream in the model
Plain == <<LBrace, <<"id", String(<<"a">>)>>, RBrace>>
Unsorted == <<LBrace, <<"token", String(<<"t">>)>>, <<"id", String(<<"a">>)>>, RBrace>>
Chunkings ==
    { <<Plain>>, <<Unsorted>>,
      << <<LBrace, <<"token", String(<<"t">>)>>>>,
         << <<"id", String(<<"a">>)>>, RBrace>> >> }
UpstreamResponses ==
    { [status |-> StatusOK, json |-> TRUE, chunks |-> c] : c \in Chunkings }
    \cup { [status |-> s, json |-> TRUE, chunks |-> <<Plain>>] :
               s \in {StatusNotFound, StatusInternalServerError} }
    \cup { [status |-> StatusOK, json |-> FALSE, chunks |-> <<TextBody("ok")>>] }
NoResponse == [status |-> 0, json |-> FALSE, chunks |-> <<>>]


----------------------------------------------------------------------------
(* The request pipeline of main: cache (only with Redis), rate limiter,     *)
(* transformer (only if enabled), dispatcher.  The dispatcher is taken by   *)
(* its outcomes here; SpecRelay and SpecLB model it.                        *)

Slots == 1..NReq
Bodies == 1..NBodies

\* the requests that arrive: a GET, and a POST of each body
Requests ==
    { [method |-> "GET", body |-> 0] }
    \cup { [method |-> "POST", body |-> b] : b \in Bodies }

\* "cache:" + hex(sha256(body)); one key per body
CacheKeyOfAnyBody(body) == <<"cache", 0>>
CacheKey(body) == <<"cache", body>>
CacheKeys == { CacheKey(b) : b \in Bodies }

\* a key of the store: the bytes, when the key expires, and (history) the
\* upstream response the bytes were captured from
NoEntry == [data |-> <<>>, expiry |-> 0, resp |-> NoResponse]
LiveForever(e, t) == e.expiry > 0
Live(e, t) == e.expiry > t

\* the layer exists: cfg.Redis.Enabled && rdb != nil
CacheLayer == redisOn

\* what rdb.Get can return for an entry: the value, redis.Nil, or an error
\* (store not reached, or the 2 s deadline)
LookupNeverFinds(e, t) == {"nil", "error"}
LookupOutcomes(e, t) == {"error"} \cup (IF Live(e, t) THEN {"hit"} ELSE {"nil"})

\* the spy wraps the writer of a POST that missed
Spied(method) == CacheLayer /\ method = "POST"

\* spy.statusCode == http.StatusOK
ShouldSaveAny(statusCode) == TRUE
ShouldSave(statusCode) == statusCode = StatusOK

IdleSlot ==
    [pc |-> "idle", method |-> "GET", body |-> 0, lookup |-> "none", statusCode |-> 0,
     data |-> <<>>, resp |-> NoResponse]

\* a response as the client sees it
Response(body, lookup, status, xcache, bytes) ==
    [body |-> body, lookup |-> lookup, status |-> status, xcache |-> xcache,
     bytes |-> bytes]
NoOutput == Response(0, "none", 0, "", <<>>)

InitPipe ==
    /\ transformCfg \in TransformConfigs
    /\ preq = [r \in Slots |-> IdleSlot]
    /\ cache = [k \in CacheKeys |-> NoEntry]
    /\ out = NoOutput
    /\ answered = {}

\* where the handler of a request is after its response went out: the save
\* goroutine if the spy saw 200, the end otherwise
RetryAfterResponse(method, statusCode) == "limiter"
AfterResponse(method, statusCode) ==
    IF Spied(method) /\ ShouldSave(statusCode) THEN "saving" ELSE "idle"

\* the response (status, bytes) of slot r leaves through the spy, if any;
\* resp is the upstream response it was made from
Finish(r, status, bytes, resp) ==
    LET q == preq[r]
        to == AfterResponse(q.method, status)
    IN
    /\ out' = Response(q.body, q.lookup, status, "", bytes)
    /\ preq' = [preq EXCEPT ![r] =
                   CASE to = "saving" -> [q EXCEPT !.pc = "saving", !.statusCode = status,
                                                   !.data = bytes, !.resp = resp]
                     [] to = "idle" -> IdleSlot
                     [] OTHER -> [q EXCEPT !.pc = to]]
    /\ answered' = IF q.method = "POST" /\ q.lookup = "nil" /\ resp.status = StatusOK
                   THEN answered \cup {q.body}
                   ELSE answered

\* err == nil: the handler answers from the store and returns
HitIgnored(got) == FALSE
Hit(got) == got = "hit"

\* CachingMiddleware up to the miss: a request arrives; a POST is looked up
\* and answered from the store on a hit
PipeArrive(r, req, got) ==
    /\ preq[r].pc = "idle"
    /\ IF CacheLayer /\ req.method = "POST"
       THEN LET e == cache[CacheKey(req.body)] IN
            /\ got \in LookupOutcomes(e, now)
            /\ IF Hit(got)
               THEN /\ out' = Response(req.body, got, StatusOK, "HIT", e.data)
                    /\ UNCHANGED preq
               ELSE /\ preq' = [preq EXCEPT ![r] =
                                   [IdleSlot EXCEPT !.pc = "limiter", !.method = req.method,
                                                    !.body = req.body, !.lookup = got]]
                    /\ out' = NoOutput
       ELSE /\ got = "none"
            /\ preq' = [preq EXCEPT ![r] =
                           [IdleSlot EXCEPT !.pc = "limiter", !.method = req.method,
                                            !.body = req.body]]
            /\ out' = NoOutput
    /\ UNCHANGED <<now, transformCfg, cache, answered, varsRelay, varsLB, varsRate, varsMore>>

\* the clients whose requests the pipeline is run with
PipeClients == {WatchedClient}

\* the layers inside the cache, for the request of client c to path: the
\* rate limiter, the transformer's path filter, and the dispatcher, which
\* forwards the request or answers 503 itself (breaker open, no target)
PipeLimit(r, c, outcome, path, forward) ==
    LET x == RateLimit(c, outcome) IN
    /\ preq[r].pc = "limiter"
    /\ limiter' = x.limiter
    /\ tat' = x.tat
    /\ IF ~x.ans.pass
       THEN Finish(r, StatusTooManyRequests, TextBody("Too Many Requests"), NoResponse)
       ELSE IF transformCfg.enabled /\ ~PathAllowed(transformCfg, path)
       THEN Finish(r, StatusForbidden, TextBody("Path not allowed"), NoResponse)
       ELSE IF ~forward
       THEN Finish(r, StatusServiceUnavailable, TextBody("Service Unavailable"), NoResponse)
       ELSE /\ preq' = [preq EXCEPT ![r].pc = "upstream"]
            /\ out' = NoOutput
            /\ UNCHANGED answered
    /\ UNCHANGED <<now, transformCfg, cache, rlCfg, redisOn, verdict, win,
                   varsRelay, varsLB, varsMore>>

\* the forward ends: the upstream's response goes back through the
\* transformer and the spy, or the transport fails and the dispatcher writes 502
TransportFailure == [status |-> TransportError, json |-> FALSE, chunks |-> <<>>]

PipeRespond(r, resp) ==
    /\ preq[r].pc = "upstream"
    /\ IF resp = TransportFailure
       THEN Finish(r, StatusBadGateway, TextBody("upstream error"), NoResponse)
       ELSE Finish(r, resp.status, Delivered(transformCfg, resp), resp)
    /\ UNCHANGED <<now, transformCfg, cache, varsRelay, varsLB, varsRate, varsMore>>

\* the save goroutine: rdb.Set(key, data, time.Hour) succeeds or fails
PipeSave(r, ok) ==
    /\ preq[r].pc = "saving"
    /\ cache' = IF ok
                THEN [cache EXCEPT ![CacheKey(preq[r].body)] =
                         [data |-> preq[r].data, expiry |-> now + CacheTTL,
                          resp |-> preq[r].resp]]
                ELSE cache
    /\ preq' = [preq EXCEPT ![r] = IdleSlot]
    /\ out' = NoOutput
    /\ UNCHANGED <<now, transformCfg, answered, varsRelay, varsLB, varsRate, varsMore>>

\* time passes: a short step, or the cache's time to live; a save goroutine
\* does not outlive its 2 s deadline
PipeTick(d) ==
    /\ IF d = SmallTick
       THEN (now % CacheTTL) + d <= MaxPipeTicks * SmallTick
       ELSE now < CacheTTL
    /\ d > SaveDeadline => \A r \in Slots : preq[r].pc # "saving"
    /\ now' = now + d
    /\ tat' = IF redisOn THEN Expired(now + d) ELSE tat
    /\ out' = NoOutput
    /\ answered' = IF d >= CacheTTL THEN {} ELSE answered
    /\ UNCHANGED <<rlCfg, redisOn, limiter, verdict, win, transformCfg, preq, cache,
                   varsRelay, varsLB, varsMore>>

NextPipe ==
    \/ \E r \in Slots, req \in Requests, got \in {"none", "hit", "nil", "error"} :
           PipeArrive(r, req, got)
    \/ \E r \in Slots, c \in PipeClients, o \in Outcomes, p \in Paths, f \in BOOLEAN :
           PipeLimit(r, c, o, p, f)
    \/ \E r \in Slots, resp \in UpstreamResponses \cup {TransportFailure} :
           PipeRespond(r, resp)
    \/ \E r \in Slots, ok \in BOOLEAN : PipeSave(r, ok)
    \/ \E d \in {SmallTick, CacheTTL} : PipeTick(d)


----------------------------------------------------------------------------
(* The configuration store: LoadAndWatch publishes the snapshot read at     *)
(* startup and republishes on every change of the file; the handlers call   *)
(* Get for each request.  main builds the chain from the snapshot it reads  *)
(* at startup.                                                              *)

\* Config: the fields the handlers use
Config(rl, models, transform, redis) ==
    [rl |-> rl, models |-> models, transform |-> transform, redis |-> redis]

\* pricing: model -> price per 1000 tokens
NoModels == [m \in {} |-> 0]
Pricing(p) == [m \in {"gpt"} |-> p]

\* the contents of the file in the model
FileConfigs ==
    { Config([enabled |-> TRUE, num |-> 2, den |-> 1, burst |-> 2], Pricing(30),
             TransformPlain, TRUE),
      Config([enabled |-> FALSE, num |-> 3, den |-> 2, burst |-> 1], Pricing(60),
             TransformFull, FALSE),
      Config([enabled |-> TRUE, num |-> 0, den |-> 1, burst |-> 2], NoModels,
             TransformOff, TRUE),
      Config([enabled |-> TRUE, num |-> 1, den |-> 2, burst |-> 1], Pricing(30),
             TransformOff, FALSE) }

\* var cfg Config: the zero value
ZeroConfig ==
    Config([enabled |-> FALSE, num |-> 0, den |-> 1, burst |-> 0], NoModels,
           TransformOff, FALSE)

\* what viper holds after ReadInConfig: the decoded file, which Unmarshal
\* turns into a Config unless a field has the wrong type
Held(cfg) == [ok |-> TRUE, cfg |-> cfg]
Mistyped == [ok |-> FALSE, cfg |-> ZeroConfig]

\* what a change of the file brings: new contents, contents with a field of
\* the wrong type, or a file viper cannot read or parse
FileChanges ==
    { [read |-> TRUE, held |-> Held(c)] : c \in FileConfigs }
    \cup { [read |-> TRUE, held |-> Mistyped], [read |-> FALSE, held |-> Mistyped] }

\* viper's ReadInConfig on a file change: a file that cannot be read leaves
\* what viper holds
ReadInConfig(held, change) == IF change.read THEN change.held ELSE held

\* Store.set: the pointer is replaced as a whole
setFieldwise(old, cfg) == [old EXCEPT !.rl = cfg.rl]
set(old, cfg) == cfg

\* refresh: Unmarshal into a new Config, and set only if that succeeded
refreshSetsFirst(held, old) ==
    [err |-> ~held.ok, cfg |-> set(old, held.cfg)]
refresh(held, old) ==
    IF ~held.ok THEN [err |-> TRUE, cfg |-> old]
    ELSE [err |-> FALSE, cfg |-> set(old, held.cfg)]

\* Store.Get: a copy of the published Config
GetStartup == loaded[1]
Get == store

\* ai.EstimateCost, in thousandths of the price's unit
EstimateCost(tokens, model, prices) ==
    IF model \in DOMAIN prices THEN tokens * prices[model] ELSE 0

\* the models requests name, and the tokens ai.CountTokens finds
Models == {"gpt", "llama"}
TokenCounts == {1000}

IdleCfgReq ==
    [pc |-> "idle", model |-> "", tokens |-> 0, tagged |-> FALSE, cost |-> 0,
     costCfg |-> ZeroConfig, limCfg |-> ZeroConfig,
     pass |-> FALSE, cached |-> FALSE, transform |-> TransformOff]

NoReloads == [n |-> 0, last |-> "none"]

InitCfg ==
    /\ \E c \in FileConfigs :
           /\ viperCfg = Held(c)
           /\ store = c
           /\ rlCfg = c.rl
           /\ transformCfg = c.transform
           /\ redisOn = c.redis
           /\ loaded = <<c>>
    /\ creq = [r \in Slots |-> IdleCfgReq]
    /\ reloads = NoReloads

\* viper's watcher on a change of the file: ReadInConfig, then the
\* OnConfigChange callback, which calls refresh
Reload(change) ==
    LET held == ReadInConfig(viperCfg, change)
        res == refresh(held, store)
    IN  /\ reloads.n < MaxReloads
        /\ viperCfg' = held
        /\ store' = res.cfg
        /\ rlCfg' = res.cfg.rl
        /\ loaded' = IF res.err THEN loaded ELSE Append(loaded, held.cfg)
        /\ reloads' = [n |-> reloads.n + 1,
                       last |-> IF res.err THEN "failed"
                                ELSE IF ~change.read THEN "unread" ELSE "published"]
        /\ UNCHANGED <<now, creq, chain, doc, varsAux, redisOn, limiter, tat, verdict, win,
                       varsRelay, varsLB, varsPipe>>

\* a request arrives
CfgArrive(r, model, tokens) ==
    /\ creq[r].pc = "idle"
    /\ creq' = [creq EXCEPT ![r] =
                   [IdleCfgReq EXCEPT !.pc = "cost", !.model = model, !.tokens = tokens]]
    /\ UNCHANGED <<now, viperCfg, store, loaded, reloads, chain, doc, varsAux,
                   varsRelay, varsLB, varsRate, varsPipe>>

\* TokenCostLogger: cfgStore.Get(), and the cost tag if there is pricing
CfgCost(r) ==
    LET cfg == Get
        q == creq[r]
    IN  /\ q.pc = "cost"
        /\ creq' = [creq EXCEPT ![r] =
               [q EXCEPT !.pc = "cache", !.costCfg = cfg,
                         !.tagged = DOMAIN cfg.models # {},
                         !.cost = IF DOMAIN cfg.models # {}
                                  THEN EstimateCost(q.tokens, q.model, cfg.models)
                                  ELSE 0]]
        /\ UNCHANGED <<now, viperCfg, store, loaded, reloads, chain, doc, varsAux,
                       varsRelay, varsLB, varsRate, varsPipe>>

\* the cache layer is in the chain if Redis was enabled and connected at
\* startup; it reads no configuration
CfgCache(r) ==
    /\ creq[r].pc = "cache"
    /\ creq' = [creq EXCEPT ![r] = [@ EXCEPT !.pc = "limiter", !.cached = CacheLayer]]
    /\ UNCHANGED <<now, viperCfg, store, loaded, reloads, chain, doc, varsAux,
                   varsRelay, varsLB, varsRate, varsPipe>>

\* NewRateLimiter's handler: cfgStore.Get(), then the limiter of the backend
CfgLimit(r, outcome) ==
    LET cfg == Get
        c == WatchedClient
        mem == RateLimitMemory(limiter, cfg.rl, now)
        red == RateLimitRedis(tat[c], cfg.rl, now, outcome)
        ans == IF redisOn THEN red.ans ELSE mem.ans
    IN  /\ creq[r].pc = "limiter"
        /\ limiter' = IF redisOn THEN limiter ELSE mem.lim
        /\ tat' = IF redisOn THEN [tat EXCEPT ![c] = red.tat] ELSE tat
        /\ verdict' = [client |-> c, ans |-> ans]
        /\ creq' = [creq EXCEPT ![r] =
               [@ EXCEPT !.pc = IF ans.pass THEN "transform" ELSE "done",
                         !.limCfg = cfg, !.pass = ans.pass]]
        /\ UNCHANGED <<now, viperCfg, store, loaded, reloads, chain, doc, varsAux,
                       rlCfg, redisOn, win, varsRelay, varsLB, varsPipe>>

\* TransformMiddleware(transformCfg): the TransformConfig main built from the
\* snapshot it read at startup
CfgTransform(r) ==
    /\ creq[r].pc = "transform"
    /\ creq' = [creq EXCEPT ![r] = [@ EXCEPT !.pc = "done", !.transform = transformCfg]]
    /\ UNCHANGED <<now, viperCfg, store, loaded, reloads, chain, doc, varsAux,
                   varsRelay, varsLB, varsRate, varsPipe>>

\* the request ends
CfgDone(r) ==
    /\ creq[r].pc = "done"
    /\ creq' = [creq EXCEPT ![r] = IdleCfgReq]
    /\ UNCHANGED <<now, viperCfg, store, loaded, reloads, chain, doc, varsAux,
                   varsRelay, varsLB, varsRate, varsPipe>>

\* the in-memory handler in its two steps on shared state: cfgStore.Get() at
\* its start, and the critical section under mu, which compares and
\* rebuilds with the snapshot the request read
MemGet(r) ==
    /\ creq[r].pc = "limiter"
    /\ ~redisOn
    /\ creq' = [creq EXCEPT ![r] = [@ EXCEPT !.pc = "lock", !.limCfg = Get]]
    /\ UNCHANGED <<now, viperCfg, store, loaded, reloads, chain, doc, varsAux,
                   varsRelay, varsLB, varsRate, varsPipe>>

MemLock(r) ==
    LET mem == RateLimitMemory(limiter, creq[r].limCfg.rl, now) IN
    /\ creq[r].pc = "lock"
    /\ limiter' = mem.lim
    /\ verdict' = [client |-> WatchedClient, ans |-> mem.ans]
    /\ creq' = [creq EXCEPT ![r] =
           [@ EXCEPT !.pc = IF mem.ans.pass THEN "transform" ELSE "done",
                     !.pass = mem.ans.pass]]
    /\ UNCHANGED <<now, viperCfg, store, loaded, reloads, chain, doc, varsAux,
                   rlCfg, redisOn, tat, win, varsRelay, varsLB, varsPipe>>

NextMem ==
    \/ \E change \in FileChanges : Reload(change)
    \/ \E r \in Slots, m \in Models, n \in TokenCounts : CfgArrive(r, m, n)
    \/ \E r \in Slots : CfgCost(r)
    \/ \E r \in Slots : CfgCache(r)
    \/ \E r \in Slots : MemGet(r)
    \/ \E r \in Slots : MemLock(r)
    \/ \E r \in Slots : CfgTransform(r)
    \/ \E r \in Slots : CfgDone(r)

NextCfg ==
    \/ \E change \in FileChanges : Reload(change)
    \/ \E r \in Slots, m \in Models, n \in TokenCounts : CfgArrive(r, m, n)
    \/ \E r \in Slots : CfgCost(r)
    \/ \E r \in Slots : CfgCache(r)
    \/ \E r \in Slots, o \in StoreOutcomes : CfgLimit(r, o)
    \/ \E r \in Slots : CfgTransform(r)
    \/ \E r \in Slots : CfgDone(r)

----------------------------------------------------------------------------
(* The chain of handlers main composes, walked by one request at a time:    *)
(* RequestLogger, TokenCostLogger, RequestLoggingMiddleware (if logging is  *)
(* enabled and there is a store), AuthMiddleware (if enabled), the cache    *)
(* (with Redis), the rate limiter, the transformer (if enabled), the        *)
(* dispatcher.                                                              *)

\* the handlers from the outermost (wrapped last) to the innermost
LayerOrder ==
    <<"logger", "cost", "recorder", "auth", "cache", "limiter", "transform",
      "dispatcher">>

\* which of the optional handlers main put in the chain; logging and
\* authentication need Redis
NoLayers == [logging |-> FALSE, auth |-> FALSE]
LayerChoices ==
    { l \in [logging : BOOLEAN, auth : BOOLEAN] : (l.logging \/ l.auth) => redisOn }

InChain(layer) ==
    CASE layer = "recorder" -> chain.layers.logging
      [] layer = "auth" -> chain.layers.auth
      [] layer = "cache" -> CacheLayer
      [] layer = "transform" -> transformCfg.enabled
      [] OTHER -> TRUE

Chain == SelectSeq(LayerOrder, InChain)

\* the handler next.ServeHTTP of layer calls; the dispatcher, the innermost,
\* forwards
NextOf(layer) ==
    LET i == CHOOSE j \in 1..Len(Chain) : Chain[j] = layer IN
    IF i < Len(Chain) THEN Chain[i + 1] ELSE "forwarded"

\* the credentials a request comes with, and AuthMiddleware's answer to them:
\* no or a malformed Authorization header, a key validateAPIKey does not
\* find or cannot load, an inactive, an expired, an exhausted, a valid key
Credentials ==
    {"none", "malformed", "unknown", "inactive", "expired", "exhausted", "valid"}
AuthStatus(auth) ==
    CASE auth \in {"none", "malformed", "unknown"} -> StatusUnauthorized
      [] auth \in {"inactive", "expired"} -> StatusForbidden
      [] auth = "exhausted" -> StatusTooManyRequests
      [] OTHER -> 0

\* a handler that writes a response returns without calling next.ServeHTTP
ShortCircuitsNever(status) == FALSE
ShortCircuits(status) == status # 0

\* the transformer configurations SpecChain runs with
ChainTransforms ==
    { TransformOff, TransformPlain,
      [TransformPlain EXCEPT
          !.requestRules = << [type |-> "remove", path |-> <<"id">>,
                               value |-> Nil, pattern |-> {}] >>,
          !.mask = TRUE, !.blocked = {"/admin"},
          !.removeHeaders = {"X-Debug"}, !.addHeaders = {<<"X-Relay", "1">>}],
      [TransformPlain EXCEPT !.allowed = {"/v1/chat"}, !.blocked = {"["},
                             !.replaceHeaders = {<<"X-Debug", "0">>}],
      [TransformPlain EXCEPT !.allowed = {"["}],
      [TransformPlain EXCEPT !.mask = TRUE, !.blocked = {".*"}] }

\* the requests SpecChain runs with
ChainBodies == {Plain, Unsorted, TextBody("hi")}
ChainRequests ==
    { [method |-> "GET", path |-> p, auth |-> a, sent |-> <<>>] :
          p \in Paths, a \in Credentials }
    \cup { [method |-> m, path |-> p, auth |-> a, sent |-> b] :
               m \in {"POST", "PUT"}, p \in Paths, a \in {"valid", "inactive"},
               b \in ChainBodies }

IdleChain(layers) ==
    [pc |-> "idle", layers |-> layers, method |-> "", path |-> "", auth |-> "",
     headers |-> {}, sent |-> <<>>, body |-> <<>>, ran |-> <<>>, by |-> "none",
     status |-> 0, mutated |-> FALSE]

InitChain ==
    /\ transformCfg \in ChainTransforms
    /\ \E l \in LayerChoices : chain = IdleChain(l)

\* the handler of layer has run and written status (0: none), leaving the
\* request with body and headers
Ran(layer, status, body, headers) ==
    [chain EXCEPT !.ran = Append(@, layer),
                  !.status = IF @ = 0 THEN status ELSE @,
                  !.by = IF @ = "none" /\ status # 0 THEN layer ELSE @,
                  !.pc = IF ShortCircuits(status) THEN "answered" ELSE NextOf(layer),
                  !.body = body, !.headers = headers]

ChainArrive(req) ==
    /\ chain.pc = "idle"
    /\ chain' = [IdleChain(chain.layers) EXCEPT
                    !.pc = "logger", !.method = req.method, !.path = req.path,
                    !.auth = req.auth, !.sent = req.sent, !.body = req.sent,
                    !.headers = {<<"X-Debug", "1">>}]
    /\ UNCHANGED <<now, varsRelay, varsLB, varsRate, varsPipe, varsCfg, doc, varsAux>>

\* RequestLogger
ChainLogger ==
    /\ chain.pc = "logger"
    /\ chain' = Ran("logger", 0, chain.body, chain.headers)
    /\ UNCHANGED <<now, varsRelay, varsLB, varsRate, varsPipe, varsCfg, doc, varsAux>>

\* TokenCostLogger: io.ReadAll fails (the client stops sending) and the
\* answer is 500, or the body is read and put back
ChainCost(readOk) ==
    /\ chain.pc = "cost"
    /\ ~readOk => chain.sent # <<>>
    /\ chain' = IF readOk
                THEN Ran("cost", 0, Restore(chain.body), chain.headers)
                ELSE Ran("cost", StatusInternalServerError, <<>>, chain.headers)
    /\ UNCHANGED <<now, varsRelay, varsLB, varsRate, varsPipe, varsCfg, doc, varsAux>>

\* RequestLoggingMiddleware: the body of a POST or PUT is read and put back
ChainRecorder ==
    /\ chain.pc = "recorder"
    /\ chain' = Ran("recorder", 0,
                    IF chain.method \in {"POST", "PUT"} THEN Restore(chain.body)
                    ELSE chain.body,
                    chain.headers)
    /\ UNCHANGED <<now, varsRelay, varsLB, varsRate, varsPipe, varsCfg, doc, varsAux>>

\* AuthMiddleware
ChainAuth ==
    /\ chain.pc = "auth"
    /\ chain' = Ran("auth", AuthStatus(chain.auth), chain.body, chain.headers)
    /\ UNCHANGED <<now, varsRelay, varsLB, varsRate, varsPipe, varsCfg, doc, varsAux>>

\* CachingMiddleware: the body of a POST is read and put back, and the
\* answer is the stored one if the store has the key
ChainCache(got) ==
    /\ chain.pc = "cache"
    /\ IF chain.method = "POST" THEN got \in {"hit", "nil", "error"} ELSE got = "none"
    /\ chain' = Ran("cache", IF Hit(got) THEN StatusOK ELSE 0,
                    IF chain.method = "POST" THEN Restore(chain.body) ELSE chain.body,
                    chain.headers)
    /\ UNCHANGED <<now, varsRelay, varsLB, varsRate, varsPipe, varsCfg, doc, varsAux>>

\* NewRateLimiter's handler
ChainLimiter(outcome) ==
    LET x == RateLimit(WatchedClient, outcome) IN
    /\ chain.pc = "limiter"
    /\ limiter' = x.limiter
    /\ tat' = x.tat
    /\ verdict' = [client |-> WatchedClient, ans |-> x.ans]
    /\ chain' = Ran("limiter", IF x.ans.pass THEN 0 ELSE StatusTooManyRequests,
                    chain.body, chain.headers)
    /\ UNCHANGED <<now, rlCfg, redisOn, win, varsRelay, varsLB, varsPipe, varsCfg, doc, varsAux>>

\* TransformMiddleware's handler: the path check, then the headers, then the
\* body of a POST or PUT.  transformRequestBody returns an error only if the
\* body cannot be read or the map cannot be encoded, which does not happen
\* to a body TokenCostLogger has put back
ChainTransform ==
    /\ chain.pc = "transform"
    /\ IF ~PathAllowed(transformCfg, chain.path)
       THEN chain' = Ran("transform", StatusForbidden, chain.body, chain.headers)
       ELSE LET body == IF chain.method \in {"POST", "PUT"}
                        THEN transformRequestBody(chain.body, transformCfg)
                        ELSE chain.body
            IN  chain' = [Ran("transform", 0, body,
                              transformHeaders(chain.headers, transformCfg))
                             EXCEPT !.mutated = (body # chain.body)]
    /\ UNCHANGED <<now, varsRelay, varsLB, varsRate, varsPipe, varsCfg, doc, varsAux>>

\* the dispatcher forwards the request with the body it reads, or answers
\* 503 itself (breaker open, no target)
ChainDispatch(forward) ==
    /\ chain.pc = "dispatcher"
    /\ chain' = IF forward
                THEN Ran("dispatcher", 0, chain.body, chain.headers)
                ELSE Ran("dispatcher", StatusServiceUnavailable, chain.body,
                         chain.headers)
    /\ UNCHANGED <<now, varsRelay, varsLB, varsRate, varsPipe, varsCfg, doc, varsAux>>

\* the request ends
ChainEnd ==
    /\ chain.pc \in {"answered", "forwarded"}
    /\ chain' = IdleChain(chain.layers)
    /\ UNCHANGED <<now, varsRelay, varsLB, varsRate, varsPipe, varsCfg, doc, varsAux>>

NextChain ==
    \/ \E req \in ChainRequests : ChainArrive(req)
    \/ ChainLogger
    \/ \E ok \in BOOLEAN : ChainCost(ok)
    \/ ChainRecorder
    \/ ChainAuth
    \/ \E got \in {"none", "hit", "nil", "error"} : ChainCache(got)
    \/ \E o \in Outcomes : ChainLimiter(o)
    \/ ChainTransform
    \/ \E f \in BOOLEAN : ChainDispatch(f)
    \/ ChainEnd

----------------------------------------------------------------------------
(* The transformer on a decoded body: the rules of the configuration, then  *)
(* the masking, as transformRequestBody and the response wrapper apply      *)
(* them between json.Unmarshal and json.Marshal.                            *)

\* the strings of the model: a short one, one of 12 characters, and one with
\* an e-mail address in it
Leaves ==
    { String(<<"h", "i">>),
      String(<<"a", "b", "c", "d", "1", "2", "3", "4", "e", "f", "g", "h">>),
      String(<<"t", "o", " ", "<email>">>) }

\* the maps below the top: any of the keys content and api_key, with strings
Inner ==
    UNION { { Object(m) : m \in [keys -> Leaves] } :
                keys \in SUBSET {"content", "api_key"} }

\* the arrays of 1..NItems such maps
IndexKeys == <<"0", "1", "2">>
Arrays ==
    UNION { { Array(m) : m \in [{IndexKeys[j] : j \in 1..n} -> Inner] } :
                n \in 1..NItems }

\* the decoded bodies of the model
Documents ==
    { ("messages" :> a) : a \in Arrays }
    \cup { ("user" :> i) @@ ("note" :> l) : i \in Inner, l \in Leaves }
    \cup { ("token" :> l) @@ ("note" :> k) : l \in Leaves, k \in Leaves }

\* the rules of the model
MaskRule(path, pattern) ==
    [type |-> "mask", path |-> path, value |-> Nil, pattern |-> pattern]
AddRule(path) ==
    [type |-> "add", path |-> path, value |-> String(<<"v">>), pattern |-> {}]
RuleSets ==
    { <<>>,
      << MaskRule(<<"messages", "0", "content">>, {}) >>,
      << MaskRule(<<"user", "content">>, {}) >>,
      << MaskRule(<<"note">>, {"<email>", " "}) >>,
      << [type |-> "replace", path |-> <<"user", "api_key">>,
          value |-> String(<<"k">>), pattern |-> {}],
         [type |-> "remove", path |-> <<"note">>, value |-> Nil, pattern |-> {}] >>,
      << AddRule(<<"user", "name">>) >>,
      << AddRule(<<"note", "lang">>) >>,
      << AddRule(<<"meta", "tags", "lang">>) >> }

NoDoc ==
    [pc |-> "none", data |-> NoKids, rules |-> <<>>, mask |-> FALSE, result |-> NoKids]

InitMask ==
    \E data \in Documents, rules \in RuleSets, mask \in BOOLEAN :
        doc = [pc |-> "decoded", data |-> data, rules |-> rules, mask |-> mask,
               result |-> data]

\* for _, rule := range config.RequestRules { applyRule(data, rule) }
MaskRules ==
    /\ doc.pc = "decoded"
    /\ doc' = [doc EXCEPT !.pc = "ruled", !.result = applyRules(@, doc.rules)]
    /\ UNCHANGED <<now, varsRelay, varsLB, varsRate, varsPipe, varsCfg, chain, varsAux>>

\* if config.MaskSensitiveData { maskSensitiveFields(data) }
MaskFields ==
    /\ doc.pc = "ruled"
    /\ doc' = [doc EXCEPT !.pc = "done",
                          !.result = IF doc.mask THEN maskSensitiveFields(@) ELSE @]
    /\ UNCHANGED <<now, varsRelay, varsLB, varsRate, varsPipe, varsCfg, chain, varsAux>>

NextMask == MaskRules \/ MaskFields

----------------------------------------------------------------------------
(* The request recorder, RequestLoggingMiddleware, between TokenCostLogger  *)
(* outside it and AuthMiddleware and the cache inside it.  A handler hands  *)
(* values inward with r.WithContext, which returns a copy of the request:   *)
(* the request a handler holds keeps the context it came with.              *)

\* the keys validateAPIKey finds in the store, and the user of each
ApiKeys ==
    { <<"r", "e", "l", "a", "y", "_", "a", "b">>,
      <<"r", "e", "l", "a", "y", "_", "a", "b", "c", "d", "e", "f", "g", "h">> }
UserOf(key) == IF Len(key) <= TruncateLen THEN "ann" ELSE "bob"

\* truncateKey
truncateKey(key) ==
    IF Len(key) = 0 THEN <<>>
    ELSE IF Len(key) <= TruncateLen THEN key
    ELSE SubSeq(key, 1, TruncateLen) \o <<".", ".", ".">>

\* a context without values, and context.WithValue for the three keys
NoAPIKey == [Key |-> <<>>, UserID |-> ""]
EmptyContext ==
    [hasKey |-> FALSE, apiKey |-> NoAPIKey, tagged |-> FALSE, tokens |-> 0, cost |-> 0]
WithAPIKey(ctx, apiKey) == [ctx EXCEPT !.hasKey = TRUE, !.apiKey = apiKey]
WithTokens(ctx, count, cost) ==
    [ctx EXCEPT !.tagged = TRUE, !.tokens = count, !.cost = cost]

\* storage.RequestLog as RequestLoggingMiddleware fills it
NoRequestLog ==
    [saved |-> FALSE, APIKey |-> <<>>, UserID |-> "", TokensUsed |-> 0, CostUSD |-> 0,
     CacheHit |-> FALSE, StatusCode |-> 0]
RequestLog(ctx, inner, xcache, status) ==
    [saved |-> TRUE,
     APIKey |-> IF ctx.hasKey THEN truncateKey(ctx.apiKey.Key) ELSE <<>>,
     UserID |-> IF ctx.hasKey THEN ctx.apiKey.UserID ELSE "",
     TokensUsed |-> IF ctx.tagged THEN ctx.tokens ELSE 0,
     CostUSD |-> IF ctx.tagged THEN ctx.cost ELSE 0,
     CacheHit |-> (xcache = "HIT"),
     StatusCode |-> status]

\* the requests of the model: the credentials, with the key of a request
\* that has one, and the body: a JSON object naming a model, or bytes that
\* are no JSON
LogRequests ==
    { [method |-> m, auth |-> a, key |-> k, json |-> j, model |-> md] :
          m \in {"GET", "POST"}, a \in Credentials, k \in ApiKeys,
          j \in BOOLEAN, md \in Models }

\* what the handlers inside the cache answer: the limiter's 429, or the
\* upstream's response, whose headers the proxy copies to the client
InnerAnswers ==
    { [by |-> "limiter", status |-> StatusTooManyRequests, xcache |-> ""] }
    \cup { [by |-> "upstream", status |-> st, xcache |-> h] :
               st \in {StatusOK, StatusInternalServerError}, h \in {"", "HIT"} }

IdleLog ==
    [pc |-> "idle", authOn |-> FALSE, method |-> "", auth |-> "", key |-> <<>>,
     json |-> FALSE, model |-> "", held |-> EmptyContext, ctx |-> EmptyContext,
     xcache |-> "", by |-> "none", status |-> 0, entry |-> NoRequestLog]

\* main puts AuthMiddleware in the chain if cfg.Auth.Enabled
InitLog == \E a \in BOOLEAN : logreq = [IdleLog EXCEPT !.authOn = a]

LogArrive(req) ==
    /\ logreq.pc = "idle"
    /\ logreq' = [IdleLog EXCEPT
                     !.pc = "cost", !.authOn = logreq.authOn, !.method = req.method,
                     !.auth = req.auth, !.key = req.key, !.json = req.json,
                     !.model = req.model]
    /\ UNCHANGED <<now, varsRelay, varsLB, varsRate, varsPipe, varsCfg, chain, doc,
                   lat, row, varsFn, varsKey>>

\* TokenCostLogger: the body cannot be read and the answer is 500; or the
\* body is read and, if it decodes and the snapshot has pricing, count and
\* cost go into the context of the request handed to the recorder
LogCost(readOk, count) ==
    LET cfg == Get
        ctx == IF logreq.json /\ DOMAIN cfg.models # {}
               THEN WithTokens(logreq.ctx, count,
                               EstimateCost(count, logreq.model, cfg.models))
               ELSE logreq.ctx
    IN  /\ logreq.pc = "cost"
        /\ logreq' = IF readOk
                     THEN [logreq EXCEPT !.pc = "recorder", !.ctx = ctx]
                     ELSE [logreq EXCEPT !.pc = "idle", !.by = "cost",
                                         !.status = StatusInternalServerError]
        /\ UNCHANGED <<now, varsRelay, varsLB, varsRate, varsPipe, varsCfg, chain,
                       doc, lat, row, varsFn, varsKey>>

\* RequestLoggingMiddleware up to next.ServeHTTP(wrapper, r): r is the
\* request the recorder reads the context of afterwards
LogRecorder ==
    /\ logreq.pc = "recorder"
    /\ logreq' = [logreq EXCEPT !.pc = IF logreq.authOn THEN "auth" ELSE "cache",
                                !.held = logreq.ctx]
    /\ UNCHANGED <<now, varsRelay, varsLB, varsRate, varsPipe, varsCfg, chain, doc,
                   lat, row, varsFn, varsKey>>

\* AuthMiddleware: an answer of its own, or next.ServeHTTP(w,
\* r.WithContext(ctx)) with the key in ctx
LogAuth ==
    /\ logreq.pc = "auth"
    /\ logreq' =
           IF AuthStatus(logreq.auth) # 0
           THEN [logreq EXCEPT !.pc = "answered", !.by = "auth",
                               !.status = AuthStatus(logreq.auth)]
           ELSE [logreq EXCEPT
                    !.pc = "cache",
                    !.ctx = WithAPIKey(@, [Key |-> logreq.key,
                                           UserID |-> UserOf(logreq.key)])]
    /\ UNCHANGED <<now, varsRelay, varsLB, varsRate, varsPipe, varsCfg, chain, doc,
                   lat, row, varsFn, varsKey>>

\* CachingMiddleware: a POST the store has an answer for is answered with
\* X-Cache: HIT
LogCache(got) ==
    /\ logreq.pc = "cache"
    /\ IF logreq.method = "POST" THEN got \in {"hit", "nil", "error"} ELSE got = "none"
    /\ logreq' = IF Hit(got)
                 THEN [logreq EXCEPT !.pc = "answered", !.by = "cache",
                                     !.status = StatusOK, !.xcache = "HIT"]
                 ELSE [logreq EXCEPT !.pc = "inner"]
    /\ UNCHANGED <<now, varsRelay, varsLB, varsRate, varsPipe, varsCfg, chain, doc,
                   lat, row, varsFn, varsKey>>

\* the handlers inside the cache answer
LogInner(answer) ==
    /\ logreq.pc = "inner"
    /\ logreq' = [logreq EXCEPT !.pc = "answered", !.by = answer.by,
                                !.status = answer.status, !.xcache = answer.xcache]
    /\ UNCHANGED <<now, varsRelay, varsLB, varsRate, varsPipe, varsCfg, chain, doc,
                   lat, row, varsFn, varsKey>>

\* RequestLoggingMiddleware after next.ServeHTTP has returned: the entry,
\* from r.Context() and the wrapper's header and status
LogEntry ==
    /\ logreq.pc = "answered"
    /\ logreq' = [logreq EXCEPT
                     !.pc = "logged",
                     !.entry = RequestLog(logreq.held, logreq.ctx, logreq.xcache,
                                          logreq.status)]
    /\ UNCHANGED <<now, varsRelay, varsLB, varsRate, varsPipe, varsCfg, chain, doc,
                   lat, row, varsFn, varsKey>>

\* the request ends
LogEnd ==
    /\ logreq.pc = "logged"
    /\ logreq' = [IdleLog EXCEPT !.authOn = logreq.authOn]
    /\ UNCHANGED <<now, varsRelay, varsLB, varsRate, varsPipe, varsCfg, chain, doc,
                   lat, row, varsFn, varsKey>>

NextLog ==
    \/ \E req \in LogRequests : LogArrive(req)
    \/ \E ok \in BOOLEAN, n \in TokenCounts : LogCost(ok, n)
    \/ LogRecorder
    \/ LogAuth
    \/ \E got \in {"none", "hit", "nil", "error"} : LogCache(got)
    \/ \E a \in InnerAnswers : LogInner(a)
    \/ LogEntry
    \/ LogEnd

----------------------------------------------------------------------------
(* buildLimit on its own, over the rates num/den and the bursts a            *)
(* configuration file can hold.                                             *)

LimitInputs ==
    { [enabled |-> TRUE, num |-> n, den |-> d, burst |-> b] :
          n \in 0..MaxNum, d \in 1..MaxDen, b \in (0 - 1)..MaxBurst }

NoLimit ==
    [cfg |-> [enabled |-> FALSE, num |-> 0, den |-> 1, burst |-> 0], built |-> FALSE,
     out |-> [ok |-> FALSE, rate |-> 0, burst |-> 0, period |-> 0]]

InitLimit == \E c \in LimitInputs : blim = [NoLimit EXCEPT !.cfg = c]

\* limit, ok := buildLimit(cfg.RateLimit.RPS, cfg.RateLimit.Burst)
BuildLimit ==
    /\ ~blim.built
    /\ blim' = [blim EXCEPT !.built = TRUE, !.out = buildLimit(blim.cfg)]
    /\ UNCHANGED <<now, varsRelay, varsLB, varsRate, varsPipe, varsCfg, chain, doc,
                   lat, row, logreq, draw, varsKey>>

NextLimit == BuildLimit

----------------------------------------------------------------------------
(* LoadBalancer.weighted on its own, over the lists of weights a filtered   *)
(* list of targets can have (NewLoadBalancer makes every weight >= 1).      *)

RECURSIVE Sum(_)
Sum(ws) == IF ws = <<>> THEN 0 ELSE Head(ws) + Sum(Tail(ws))

WeightLists == UNION { [1..n -> 1..MaxWeight] : n \in 1..MaxListed }

\* the loop of weighted from target i on, with what is left of random; the
\* index of the target returned (targets[0] after the loop)
RECURSIVE weightedScanNoSubtract(_, _, _)
RECURSIVE weightedScan(_, _, _)
weightedScanNoSubtract(ws, i, random) ==
    IF i > Len(ws) THEN 1
    ELSE IF random - ws[i] < 0 THEN i
    ELSE weightedScanNoSubtract(ws, i + 1, random)
weightedScan(ws, i, random) ==
    IF i > Len(ws) THEN 1
    ELSE IF random - ws[i] < 0 THEN i
    ELSE weightedScan(ws, i + 1, random - ws[i])

\* weighted, given rand.Intn(totalWeight)
weighted(ws, random) == weightedScan(ws, 1, random)

NoDraw == [ws |-> <<1>>, random |-> 0, picked |-> 0]

InitDraw ==
    \E ws \in WeightLists, random \in 0..(MaxWeight * MaxListed) :
        /\ random < Sum(ws)
        /\ draw = [ws |-> ws, random |-> random, picked |-> 0]

Weighted ==
    /\ draw.picked = 0
    /\ draw' = [draw EXCEPT !.picked = weighted(draw.ws, draw.random)]
    /\ UNCHANGED <<now, varsRelay, varsLB, varsRate, varsPipe, varsCfg, chain, doc,
                   lat, row, logreq, blim, varsKey>>

NextDraw == Weighted

----------------------------------------------------------------------------
(* One API key in the store: AuthMiddleware reads its record, incrementUsage *)
(* (a goroutine per admitted request) and the key manager's UpdateKey read  *)
(* the record, change their copy and write the whole record back.           *)

Quotas == 0..MaxQuota

\* the record CreateKey stores, with quota q (0: no quota)
NewKey(q) == [Active |-> TRUE, Used |-> 0, Quota |-> q]

IdleKeyReq == [pc |-> "idle", status |-> 0, got |-> NewKey(0)]
IdleAdmin == [pc |-> "idle", got |-> NewKey(0)]

\* a request of the chain with the cache behind AuthMiddleware, and the
\* (history) note of the request a stored response was saved for
IdleShared ==
    [pc |-> "idle", method |-> "GET", body |-> 0, path |-> "", auth |-> "none",
     key |-> <<>>, lookup |-> "none", data |-> <<>>, resp |-> NoResponse]
NotSaved == [path |-> "", key |-> <<>>, data |-> <<>>, saved |-> FALSE]
KeyedBodies == 1..(NBodies + 1)
NoShared(on) ==
    [authOn |-> on, req |-> IdleShared, saved |-> [b \in KeyedBodies |-> NotSaved]]

InitKey ==
    /\ \E q \in Quotas : apikey = NewKey(q)
    /\ areq = [r \in Reqs |-> IdleKeyReq]
    /\ admin = IdleAdmin
    /\ admitted = 0
    /\ shared = NoShared(FALSE)

QuietKey ==
    /\ apikey = NewKey(0)
    /\ areq = [r \in Reqs |-> IdleKeyReq]
    /\ admin = IdleAdmin
    /\ admitted = 0
    /\ shared = NoShared(FALSE)

\* AuthMiddleware's checks on the record validateAPIKey returned: 0 when
\* the request passes
KeyStatus(k) ==
    IF ~k.Active THEN StatusForbidden
    ELSE IF k.Quota > 0 /\ k.Used >= k.Quota THEN StatusTooManyRequests
    ELSE 0

\* AuthMiddleware for a request with the key: validateAPIKey (the store
\* answers or not), the checks, and for a request that passes the go
\* statement with incrementUsage and next.ServeHTTP
AuthMiddleware(r, found) ==
    /\ areq[r].pc = "idle"
    /\ admitted < MaxAdmitted
    /\ LET status == IF found THEN KeyStatus(apikey) ELSE StatusUnauthorized IN
       /\ areq' = [areq EXCEPT ![r] =
              [IdleKeyReq EXCEPT !.pc = IF status = 0 THEN "increment" ELSE "idle",
                                 !.status = status]]
       /\ admitted' = IF status = 0 THEN admitted + 1 ELSE admitted
    /\ UNCHANGED <<now, varsRelay, varsLB, varsRate, varsPipe, varsCfg, chain, doc,
                   lat, row, logreq, varsFn, apikey, admin,
                   shared>>

\* incrementUsage: rdb.Get and json.Unmarshal; it returns on an error
incrementUsageGet(r, found) ==
    /\ areq[r].pc = "increment"
    /\ areq' = [areq EXCEPT ![r] =
           IF found THEN [@ EXCEPT !.pc = "save", !.got = apikey]
           ELSE [@ EXCEPT !.pc = "idle"]]
    /\ UNCHANGED <<now, varsRelay, varsLB, varsRate, varsPipe, varsCfg, chain, doc,
                   lat, row, logreq, varsFn, apikey, admin, admitted,
                   shared>>

\* incrementUsage: apiKey.Used++ and rdb.Set of the record it read
incrementUsageSet(r) ==
    /\ areq[r].pc = "save"
    /\ apikey' = [areq[r].got EXCEPT !.Used = @ + 1]
    /\ areq' = [areq EXCEPT ![r] = [@ EXCEPT !.pc = "idle", !.got = NewKey(0)]]
    /\ UNCHANGED <<now, varsRelay, varsLB, varsRate, varsPipe, varsCfg, chain, doc,
                   lat, row, logreq, varsFn, admin, admitted,
                   shared>>

\* RevokeKey: UpdateKey's GetKey
RevokeKeyGet ==
    /\ admin.pc = "idle"
    /\ admin' = [pc |-> "save", got |-> apikey]
    /\ UNCHANGED <<now, varsRelay, varsLB, varsRate, varsPipe, varsCfg, chain, doc,
                   lat, row, logreq, varsFn, apikey, areq, admitted,
                   shared>>

\* RevokeKey: UpdateKey's rdb.Set of the record it read, with active false
RevokeKeySet ==
    /\ admin.pc = "save"
    /\ apikey' = [admin.got EXCEPT !.Active = FALSE]
    /\ admin' = [pc |-> "revoked", got |-> NewKey(0)]
    /\ UNCHANGED <<now, varsRelay, varsLB, varsRate, varsPipe, varsCfg, chain, doc,
                   lat, row, logreq, varsFn, areq, admitted,
                   shared>>

NextKey ==
    \/ \E r \in Reqs, found \in BOOLEAN : AuthMiddleware(r, found)
    \/ \E r \in Reqs, found \in BOOLEAN : incrementUsageGet(r, found)
    \/ \E r \in Reqs : incrementUsageSet(r)
    \/ RevokeKeyGet
    \/ RevokeKeySet

----------------------------------------------------------------------------
(* The cache behind AuthMiddleware: main wraps the cache (layer C) in       *)
(* AuthMiddleware (layer D), so a request reaches the store's lookup only   *)
(* after its key passed.  A request has a method, a body, a path and        *)
(* credentials; the handlers inside the cache are taken by their answers.   *)

SharedKeys == { CacheKey(b) : b \in KeyedBodies }

\* the requests that arrive
SharedRequests ==
    { [IdleShared EXCEPT !.method = m, !.body = b, !.path = p, !.auth = a, !.key = k] :
          m \in {"GET", "POST"}, b \in KeyedBodies, p \in Paths,
          a \in Credentials \ {"valid"}, k \in {<<>>} }
    \cup
    { [IdleShared EXCEPT !.method = m, !.body = b, !.path = p, !.auth = "valid",
                        !.key = k] :
          m \in {"GET", "POST"}, b \in KeyedBodies, p \in Paths, k \in ApiKeys }

\* respondError: the status and {"error": message}
respondError(status) == << <<"error", status>> >>

InitShared ==
    /\ \E on \in BOOLEAN : shared = NoShared(on)
    /\ cache = [k \in SharedKeys |-> NoEntry]
    /\ out = NoOutput

\* the request leaves the chain with its answer
SharedAnswer(q, status, xcache, bytes) ==
    /\ out' = Response(q.body, q.lookup, status, xcache, bytes)
    /\ shared' = [shared EXCEPT !.req = [q EXCEPT !.pc = "idle"]]
    /\ UNCHANGED cache

\* a request enters the chain: AuthMiddleware if cfg.Auth.Enabled, the cache
\* otherwise
ShareArrive(req) ==
    /\ shared.req.pc = "idle"
    /\ shared' = [shared EXCEPT
                     !.req = [req EXCEPT !.pc = IF shared.authOn THEN "auth" ELSE "cache"]]
    /\ out' = NoOutput
    /\ UNCHANGED <<now, cache, transformCfg, preq, answered, varsRelay, varsLB,
                   varsRate, varsCfg, chain, doc, lat, row, logreq, varsFn,
                   apikey, areq, admin, admitted>>

\* AuthMiddleware: its own answer, or next.ServeHTTP
ShareAuth ==
    LET q == shared.req
        status == AuthStatus(q.auth)
    IN  /\ q.pc = "auth"
        /\ IF ShortCircuits(status)
           THEN SharedAnswer(q, status, "", respondError(status))
           ELSE /\ shared' = [shared EXCEPT !.req.pc = "cache"]
                /\ UNCHANGED <<out, cache>>
        /\ UNCHANGED <<now, transformCfg, preq, answered, varsRelay, varsLB,
                       varsRate, varsCfg, chain, doc, lat, row, logreq, varsFn,
                       apikey, areq, admin, admitted>>

\* CachingMiddleware up to the miss: the key is made of the body alone
ShareCache(got) ==
    LET q == shared.req
        e == cache[CacheKey(q.body)]
    IN  /\ q.pc = "cache"
        /\ IF q.method = "POST"
           THEN /\ got \in LookupOutcomes(e, now)
                /\ IF Hit(got)
                   THEN SharedAnswer([q EXCEPT !.lookup = got], StatusOK, "HIT", e.data)
                   ELSE /\ shared' = [shared EXCEPT
                                         !.req = [q EXCEPT !.pc = "inner", !.lookup = got]]
                        /\ UNCHANGED <<out, cache>>
           ELSE /\ got = "none"
                /\ shared' = [shared EXCEPT !.req.pc = "inner"]
                /\ UNCHANGED <<out, cache>>
        /\ UNCHANGED <<now, transformCfg, preq, answered, varsRelay, varsLB,
                       varsRate, varsCfg, chain, doc, lat, row, logreq, varsFn,
                       apikey, areq, admin, admitted>>

\* the handlers inside the cache: the limiter's 429, the transformer's 403
\* for the path, the dispatcher's 503 or 502, or the upstream's response;
\* the spy of a POST that saw 200 starts the save goroutine
ShareInner(limited, forward, resp) ==
    LET q == shared.req
        status == IF limited THEN StatusTooManyRequests
                  ELSE IF transformCfg.enabled /\ ~PathAllowed(transformCfg, q.path)
                  THEN StatusForbidden
                  ELSE IF ~forward THEN StatusServiceUnavailable
                  ELSE IF resp = TransportFailure THEN StatusBadGateway
                  ELSE resp.status
        bytes == IF limited THEN TextBody("Too Many Requests")
                 ELSE IF transformCfg.enabled /\ ~PathAllowed(transformCfg, q.path)
                 THEN TextBody("Path not allowed")
                 ELSE IF ~forward THEN TextBody("Service Unavailable")
                 ELSE IF resp = TransportFailure THEN TextBody("upstream error")
                 ELSE Delivered(transformCfg, resp)
    IN  /\ q.pc = "inner"
        /\ out' = Response(q.body, q.lookup, status, "", bytes)
        /\ shared' = [shared EXCEPT
                         !.req = IF Spied(q.method) /\ ShouldSave(status)
                                 THEN [q EXCEPT !.pc = "saving", !.data = bytes,
                                                !.resp = resp]
                                 ELSE [q EXCEPT !.pc = "idle"]]
        /\ UNCHANGED <<now, cache, transformCfg, preq, answered, varsRelay, varsLB,
                       varsRate, varsCfg, chain, doc, lat, row, logreq, varsFn,
                       apikey, areq, admin, admitted>>

\* the save goroutine: rdb.Set(key, data, time.Hour) succeeds or fails
ShareSave(ok) ==
    LET q == shared.req IN
    /\ q.pc = "saving"
    /\ cache' = IF ok
                THEN [cache EXCEPT ![CacheKey(q.body)] =
                         [data |-> q.data, expiry |-> now + CacheTTL, resp |-> q.resp]]
                ELSE cache
    /\ shared' = [shared EXCEPT
                     !.req = [q EXCEPT !.pc = "idle"],
                     !.saved = IF ok
                               THEN [@ EXCEPT ![q.body] =
                                        [path |-> q.path, key |-> q.key,
                                         data |-> q.data, saved |-> TRUE]]
                               ELSE @]
    /\ out' = NoOutput
    /\ UNCHANGED <<now, transformCfg, preq, answered, varsRelay, varsLB,
                   varsRate, varsCfg, chain, doc, lat, row, logreq, varsFn,
                   apikey, areq, admin, admitted>>

NextShare ==
    \/ \E req \in SharedRequests : ShareArrive(req)
    \/ ShareAuth
    \/ \E got \in {"none", "hit", "nil", "error"} : ShareCache(got)
    \/ \E limited \in BOOLEAN, forward \in BOOLEAN,
          resp \in UpstreamResponses \cup {TransportFailure} :
           ShareInner(limited, forward, resp)
    \/ \E ok \in BOOLEAN : ShareSave(ok)

----------------------------------------------------------------------------
\* a specification starts its own subsystem in every initial state it has and
\* the others in their first one
QuietLB == InitLB /\ strategy = "round-robin"

QuietRate ==
    /\ InitRate
    /\ rlCfg = [enabled |-> TRUE, num |-> 2, den |-> 1, burst |-> 2]
    /\ ~redisOn

QuietPipe == InitPipe /\ transformCfg = TransformOff

\* the store holds the configuration the other subsystems run with
QuietCfg ==
    /\ store = Config(rlCfg, NoModels, transformCfg, redisOn)
    /\ viperCfg = Held(store)
    /\ loaded = <<store>>
    /\ creq = [r \in Slots |-> IdleCfgReq]
    /\ reloads = NoReloads

QuietChain == chain = IdleChain(NoLayers)

QuietMask == doc = NoDoc

QuietLat == lat = NoLatency

QuietLog == logreq = IdleLog

QuietFn == blim = NoLimit /\ draw = NoDraw

QuietAux == QuietLat /\ row = NoRows /\ QuietLog /\ QuietFn /\ QuietKey

QuietMore == QuietCfg /\ QuietChain /\ QuietMask /\ QuietAux

InitSpecRelay == now = 0 /\ InitRelay /\ QuietLB /\ QuietRate /\ QuietPipe /\ QuietMore

SpecRelay == InitSpecRelay /\ [][NextRelay]_vars

InitSpecLB == now = 0 /\ InitRelay /\ InitLB /\ QuietRate /\ QuietPipe /\ QuietMore

SpecLB == InitSpecLB /\ [][NextLB]_vars

InitSpecRate == now = 0 /\ InitRelay /\ QuietLB /\ InitRate /\ QuietPipe /\ QuietMore

SpecRate == InitSpecRate /\ [][NextRate]_vars

\* the pipeline runs with rps 2 and burst 2, with and without Redis
InitPipeRate ==
    /\ InitRate
    /\ rlCfg = [enabled |-> TRUE, num |-> 2, den |-> 1, burst |-> 2]

InitSpecPipe == now = 0 /\ InitRelay /\ QuietLB /\ InitPipeRate /\ InitPipe /\ QuietMore

SpecPipe == InitSpecPipe /\ [][NextPipe]_vars

\* the store with reloads: the limiter starts as in InitRate, the rest quiet
InitSpecConfig ==
    /\ now = 0
    /\ InitRelay /\ QuietLB
    /\ InitCfg
    /\ limiter = NoLimiter
    /\ tat = [c \in Clients |-> 0]
    /\ verdict = [client |-> WatchedClient, ans |-> Answer("off", TRUE, 0)]
    /\ win = NotWatching
    /\ preq = [r \in Slots |-> IdleSlot]
    /\ cache = [k \in CacheKeys |-> NoEntry]
    /\ out = NoOutput
    /\ answered = {}
    /\ QuietChain /\ QuietMask /\ QuietAux

SpecConfig == InitSpecConfig /\ [][NextCfg]_vars

\* the same without Redis, the in-memory limiter in its two steps
InitSpecMem == InitSpecConfig /\ ~redisOn

SpecMem == InitSpecMem /\ [][NextMem]_vars

\* the chain: the limiter as in SpecPipe, with and without Redis
InitSpecChain ==
    /\ now = 0
    /\ InitRelay /\ QuietLB
    /\ InitPipeRate
    /\ InitChain
    /\ preq = [r \in Slots |-> IdleSlot]
    /\ cache = [k \in CacheKeys |-> NoEntry]
    /\ out = NoOutput
    /\ answered = {}
    /\ QuietCfg /\ QuietMask /\ QuietAux

SpecChain == InitSpecChain /\ [][NextChain]_vars

\* the transformer on decoded bodies
InitSpecMask ==
    /\ now = 0
    /\ InitRelay /\ QuietLB /\ QuietRate /\ QuietPipe
    /\ QuietCfg /\ QuietChain /\ QuietAux
    /\ InitMask

SpecMask == InitSpecMask /\ [][NextMask]_vars

\* the round-robin balancer with its history
InitSpecRow ==
    /\ now = 0
    /\ InitRelay /\ InitRow /\ QuietRate /\ QuietPipe
    /\ QuietCfg /\ QuietChain /\ QuietMask /\ QuietAux

SpecRow == InitSpecRow /\ [][NextRow]_vars

\* the load balancer under least-latency
InitSpecLat ==
    /\ now = 0
    /\ InitRelay /\ InitLat /\ QuietRate /\ QuietPipe
    /\ QuietCfg /\ QuietChain /\ QuietMask
    /\ row = NoRows /\ QuietLog /\ QuietFn /\ QuietKey

SpecLat == InitSpecLat /\ [][NextLat]_vars

\* the same with trackers near their capacity
InitSpecTrack ==
    /\ now = 0
    /\ InitRelay /\ InitTrack /\ QuietRate /\ QuietPipe
    /\ QuietCfg /\ QuietChain /\ QuietMask
    /\ row = NoRows /\ QuietLog /\ QuietFn /\ QuietKey

SpecTrack == InitSpecTrack /\ [][NextLat]_vars

\* the recorder between the cost tagger and the authenticator
InitSpecLog ==
    /\ now = 0
    /\ InitRelay /\ QuietLB
    /\ InitCfg /\ redisOn
    /\ limiter = NoLimiter
    /\ tat = [c \in Clients |-> 0]
    /\ verdict = [client |-> WatchedClient, ans |-> Answer("off", TRUE, 0)]
    /\ win = NotWatching
    /\ preq = [r \in Slots |-> IdleSlot]
    /\ cache = [k \in CacheKeys |-> NoEntry]
    /\ out = NoOutput
    /\ answered = {}
    /\ QuietChain /\ QuietMask /\ QuietLat /\ row = NoRows /\ QuietFn /\ QuietKey
    /\ InitLog

SpecLog == InitSpecLog /\ [][NextLog]_vars

\* buildLimit
InitSpecLimit ==
    /\ now = 0
    /\ InitRelay /\ QuietLB /\ QuietRate /\ QuietPipe
    /\ QuietCfg /\ QuietChain /\ QuietMask
    /\ QuietLat /\ row = NoRows /\ QuietLog
    /\ InitLimit /\ draw = NoDraw /\ QuietKey

SpecLimit == InitSpecLimit /\ [][NextLimit]_vars

\* weighted
InitSpecDraw ==
    /\ now = 0
    /\ InitRelay /\ QuietLB /\ QuietRate /\ QuietPipe
    /\ QuietCfg /\ QuietChain /\ QuietMask
    /\ QuietLat /\ row = NoRows /\ QuietLog
    /\ blim = NoLimit /\ InitDraw /\ QuietKey

SpecDraw == InitSpecDraw /\ [][NextDraw]_vars

\* one API key, its requests and the key manager
InitSpecKey ==
    /\ now = 0
    /\ InitRelay /\ QuietLB /\ QuietRate /\ QuietPipe
    /\ QuietCfg /\ QuietChain /\ QuietMask
    /\ QuietLat /\ row = NoRows /\ QuietLog /\ QuietFn
    /\ InitKey

SpecKey == InitSpecKey /\ [][NextKey]_vars

\* the cache behind AuthMiddleware, with Redis and a transformer that blocks
\* a path
InitSpecShare ==
    /\ now = 0
    /\ InitRelay /\ QuietLB
    /\ InitRate /\ rlCfg = [enabled |-> TRUE, num |-> 2, den |-> 1, burst |-> 2]
    /\ redisOn
    /\ transformCfg = TransformFull
    /\ preq = [r \in Slots |-> IdleSlot]
    /\ answered = {}
    /\ QuietCfg /\ QuietChain /\ QuietMask
    /\ QuietLat /\ row = NoRows /\ QuietLog /\ QuietFn
    /\ apikey = NewKey(0)
    /\ areq = [r \in Reqs |-> IdleKeyReq]
    /\ admin = IdleAdmin
    /\ admitted = 0
    /\ InitShared

SpecShare == InitSpecShare /\ [][NextShare]_vars

----------------------------------------------------------------------------
(* Claims about the load balancer (SpecLB) *)

\* the step in which request r goes from pc a to pc b
LBStep(r, a, b) == lbreq[r].pc = a /\ lbreq'[r].pc = b

\* C1 (as stated): under any interleaving of requests, health probes and
\* breaker transitions, at the moment a request is forwarded its target's
\* healthy flag is true and its breaker's state is not OPEN.
C1_ForwardOnlyToSelectable ==
    [][\A r \in Reqs :
          LBStep(r, "admitted", "forwarded") =>
              /\ healthy[lbreq[r].target]
              /\ currentState(cb[lbreq[r].target], now).state # "open"]_vars

\* C1 (amended): a request is forwarded only after selectTarget picked its
\* target while the target's healthy flag was true and its breaker not OPEN,
\* and after the breaker, not OPEN, admitted the call; the flag and the
\* breaker may change between these steps and the forward.
C1_SelectableWhenSelected ==
    [][\A r \in Reqs :
          /\ lbreq'[r].pc = "selected" /\ lbreq[r].pc # "selected" =>
                /\ healthy[lbreq'[r].target]
                /\ cb'[lbreq'[r].target].state # "open"
          /\ lbreq'[r].pc = "admitted" /\ lbreq[r].pc # "admitted" =>
                /\ lbreq[r].pc = "selected"
                /\ lbreq'[r].target = lbreq[r].target
                /\ cb'[lbreq[r].target].state # "open"
          /\ lbreq'[r].pc = "forwarded" /\ lbreq[r].pc # "forwarded" =>
                /\ lbreq[r].pc = "admitted"
                /\ lbreq'[r].target = lbreq[r].target]_vars

\* C1 witness: a request has been forwarded while another target is unhealthy
\* or has its breaker OPEN
C1_Witness ==
    \E r \in Reqs : /\ lbreq[r].pc = "forwarded"
                    /\ \E t \in Targets \ {lbreq[r].target} :
                           ~healthy[t] \/ cb[t].state = "open"

\* the targets that are healthy and whose breaker is not OPEN now
PassFilter ==
    { t \in Targets : healthy[t] /\ currentState(cb[t], now).state # "open" }

\* C23: when no target is both healthy and not OPEN at selection time, the
\* load balancer answers 503, selects and forwards to no target, and
\* records no latency sample
C23_NoTargetIs503 ==
    [][\A r \in Reqs :
          /\ lbreq[r].pc \in {"idle", "done"} /\ lbreq'[r] # lbreq[r] /\ PassFilter = {} =>
                /\ lbreq'[r].pc = "done"
                /\ lbreq'[r].status = StatusServiceUnavailable
                /\ lbreq'[r].target = 0
                /\ lat'.samples = lat.samples
          /\ lbreq'[r].pc = "admitted" /\ lbreq[r].pc # "admitted" =>
                lbreq[r].pc = "selected" /\ lbreq[r].target \in Targets]_vars

\* C23 witness: a request was answered 503 for want of a target, with the
\* only healthy target's breaker OPEN, and no sample has been recorded
C23_Witness ==
    \E r \in Reqs :
        /\ lbreq[r].pc = "done"
        /\ lbreq[r].status = StatusServiceUnavailable
        /\ lbreq[r].target = 0
        /\ PassFilter = {}
        /\ \E t \in Targets : healthy[t] /\ cb[t].state = "open"
        /\ lat.n > 0
        /\ lat.samples = NoLatency.samples

\* the average the claim gives a target: 100 ms before its first sample
ClaimedAverage(t) ==
    IF lat.samples[t] = <<>> THEN 100
    ELSE Total(lat.samples[t]) \div Len(lat.samples[t])

\* C27: under least-latency the selected target has the smallest average
\* over its window among the targets that pass the filter, a target without
\* samples counting as 100 ms
C27_LeastAverageDefault100 ==
    [][\A r \in Reqs :
          lbreq'[r].pc = "selected" /\ lbreq[r].pc # "selected" =>
              /\ lbreq'[r].target \in PassFilter
              /\ \A u \in PassFilter :
                     ClaimedAverage(lbreq'[r].target) <= ClaimedAverage(u)]_vars

\* target t tripped on 5 answers >= 500 in a row and its 30 s are not over
JustTripped(t) ==
    row[t] >= TripThreshold /\ cb[t].state = "open" /\ now <= cb[t].expiry

\* another request than r is with target t, admitted in generation g
ProbePending(r, t, g) ==
    \E q \in Reqs \ {r} :
        /\ lbreq[q].target = t
        /\ lbreq[q].pc \in {"admitted", "forwarded"}
        /\ lbreq[q].gen = g

\* C24 (as stated): after target A answered 5 requests in a row with status
\* 500, no request is forwarded to A until the 30 s reset timeout has
\* elapsed; then A is retried with one probe, and while the probe's outcome
\* is pending no second request is forwarded to A
C24_SixthGoesElsewhere ==
    [][\A r \in Reqs :
          LBStep(r, "admitted", "forwarded") =>
              LET t == lbreq[r].target IN
              /\ ~JustTripped(t)
              /\ cb[t].state = "half-open" => ~ProbePending(r, t, cb[t].generation)]_vars

\* C24 (amended): a target's breaker goes from CLOSED to OPEN when it counts
\* its 5th consecutive failure (it does not count the answer to a request
\* it admitted before its latest change of state); while it is OPEN and its 30 s are not over
\* the target is not selected; it turns HALF-OPEN only after the 30 s, and
\* in HALF-OPEN it admits a request only while no other request it admitted
\* in HALF-OPEN is pending; a request is forwarded only after it was
\* admitted (one admitted before the trip may be forwarded after it)
C24_TrippedTargetNotSelected ==
    [][/\ \A t \in Targets :
             /\ cb[t].state = "closed" /\ cb'[t].state = "open" =>
                    cb[t].consecFail = TripThreshold - 1
             /\ cb[t].state = "open" /\ cb'[t].state = "half-open" => now > cb[t].expiry
       /\ \A r \in Reqs :
             /\ lbreq'[r].pc = "selected" /\ lbreq[r].pc # "selected" =>
                    ~(cb[lbreq'[r].target].state = "open"
                          /\ now <= cb[lbreq'[r].target].expiry)
             /\ lbreq'[r].pc = "admitted" /\ lbreq[r].pc # "admitted"
                  /\ cb'[lbreq[r].target].state = "half-open" =>
                    ~ProbePending(r, lbreq[r].target, cb'[lbreq[r].target].generation)
             /\ lbreq'[r].pc = "forwarded" /\ lbreq[r].pc # "forwarded" =>
                    lbreq[r].pc = "admitted"]_vars

\* C24 witness: after 5 answers >= 500 in a row and the reset timeout, the
\* target's one probe is forwarded while another request has been refused
C24_Witness ==
    \E r \in Reqs, q \in Reqs :
        LET t == lbreq[r].target IN
        /\ lbreq[r].pc = "forwarded"
        /\ cb[t].state = "half-open"
        /\ lbreq[r].gen = cb[t].generation
        /\ row[t] = TripThreshold
        /\ lbreq[q].pc = "done"
        /\ lbreq[q].status = StatusServiceUnavailable

\* C26: under round-robin, while all N targets pass the filter, the first
\* selection picks index 0 and the k-th selection, in the order of the
\* increments of the counter, picks index k mod N, so that N consecutive
\* selections pick every target once
C26_RoundRobinOrder ==
    /\ current = 0
    /\ [][\A r \in Reqs :
             lbreq'[r].pc = "selected" /\ lbreq[r].pc # "selected" /\ PassFilter = Targets =>
                 /\ lbreq'[r].target = (current % NTargets) + 1
                 /\ current' = (current + 1) % Factorial(NTargets)]_vars

\* C26 witness: with both requests in flight, one was given the first target
\* and the other, next, the last target, all targets passing the filter
C26_Witness ==
    /\ PassFilter = Targets
    /\ \E r \in Reqs, q \in Reqs :
           /\ lbreq[r].pc = "forwarded" /\ lbreq[r].target = 1
           /\ lbreq[q].pc = "selected" /\ lbreq[q].target = NTargets
    /\ current = NTargets % Factorial(NTargets)

\* C29: when a health probe of a target completes, the target's healthy
\* flag becomes true if the probe got a response with status < 500 and false
\* on any other status, a transport error or the deadline; nothing but a
\* completing probe of the target changes its flag, request traffic never
C29_ProbeSetsHealthy ==
    [][/\ \A t \in Targets, o \in ProbeOutcomes :
             checkHealth(t, o) =>
                 healthy'[t] = (o # TransportError /\ o < StatusInternalServerError)
       /\ \A t \in Targets :
             healthy'[t] # healthy[t] => t \in probing /\ t \notin probing'
       /\ lbreq' # lbreq => healthy' = healthy]_vars

\* C29 witness: a probe has found a target unhealthy while a request the
\* target's breaker admitted is still in flight
C29_Witness ==
    \E t \in Targets, r \in Reqs :
        /\ ~healthy[t]
        /\ t \notin probing
        /\ lbreq[r].pc = "admitted"
        /\ lbreq[r].target = t

----------------------------------------------------------------------------
(* Claims about the single-target dispatcher (SpecRelay) *)

RelayStep(r, a, b) == rreq[r].pc = a /\ rreq'[r].pc = b

\* the last 5 upstream responses through the breaker had status >= 500 and
\* the 30 s reset timeout has not elapsed since the fifth
TrippedRecently == streak >= TripThreshold /\ now - streakAt < Timeout

\* C2 (as stated): after 5 consecutive upstream responses with status >= 500
\* through the breaker, the next request dispatched is answered 503 without a
\* forward, and no forward happens through the breaker until the 30 s reset
\* timeout has elapsed.
C2_NoForwardAfterFiveFailures ==
    [][\A r \in Reqs :
          /\ RelayStep(r, "admitted", "forwarded") => ~TrippedRecently
          /\ rreq[r].pc \in {"idle", "done"} /\ rreq'[r].pc # rreq[r].pc /\ TrippedRecently =>
                rreq'[r].pc = "done" /\ rreq'[r].status = StatusServiceUnavailable]_vars

\* C2 (amended): the breaker leaves CLOSED for OPEN exactly when it has counted
\* 5 consecutive failures; a request that enters the dispatcher while the
\* breaker is OPEN and its 30 s reset timeout has not elapsed is answered 503
\* and is not forwarded (a request admitted before the trip may still be
\* forwarded); a request is admitted, and then forwarded, in HALF-OPEN only
\* after more than 30 s have passed since the trip.
C2_TripAndReset ==
    /\ [](rcb.state = "closed" => rcb.consecFail < TripThreshold)
    /\ [][/\ rcb.state = "closed" /\ rcb'.state = "open" =>
                rcb.consecFail = TripThreshold - 1
          /\ \A r \in Reqs :
                /\ rreq[r].pc \in {"idle", "done"} /\ rreq'[r].pc # rreq[r].pc
                     /\ currentState(rcb, now).state = "open" =>
                        rreq'[r].pc = "done" /\ rreq'[r].status = StatusServiceUnavailable
                /\ rreq'[r].pc = "admitted" /\ rreq[r].pc # "admitted" =>
                        /\ rreq[r].pc = "checked"
                        /\ rcb'.state # "open"
                        /\ rcb'.state = "half-open" => now - openedAt > Timeout
                /\ rreq'[r].pc = "forwarded" /\ rreq[r].pc # "forwarded" =>
                        rreq[r].pc = "admitted"]_vars

\* C2 witness: after a trip and the reset timeout, a request admitted in
\* HALF-OPEN has been forwarded
C2_Witness ==
    \E r \in Reqs : /\ rreq[r].pc = "forwarded"
                    /\ rcb.state = "half-open"
                    /\ rreq[r].gen = rcb.generation
                    /\ now - openedAt > Timeout

\* the upstream answered request r with a status >= 500 in this step
Answered5xx(r) ==
    /\ RelayStep(r, "forwarded", "done")
    /\ rreq'[r].wrote
    /\ rreq'[r].status = StatusInternalServerError

\* C22 (as stated): an upstream response with status >= 500 reaches the
\* client with its status, is counted as one breaker failure, and is the only
\* response written
C22_Upstream5xxCountedAndReturned ==
    [][\A r \in Reqs :
          Answered5xx(r) =>
              /\ rreq'[r].writes = 1
              /\ rcb' = onFailure(currentState(rcb, now), now)]_vars

\* C22 (amended): an upstream response with status >= 500 reaches the client
\* with its status and is the only response written; it is counted as one
\* breaker failure if the breaker is still in the generation that admitted
\* the request, and leaves the breaker's counts alone otherwise
C22_Upstream5xxReturnedCountedInGeneration ==
    [][\A r \in Reqs :
          Answered5xx(r) =>
              LET c == currentState(rcb, now) IN
              /\ rreq'[r].writes = 1
              /\ rcb' = IF c.generation = rreq[r].gen THEN onFailure(c, now) ELSE c]_vars

\* C22 witness: a 500 of the upstream has reached the client and has been
\* counted by the breaker
C22_Witness ==
    \E r \in Reqs : /\ rreq[r].pc = "done"
                    /\ rreq[r].wrote
                    /\ rreq[r].status = StatusInternalServerError
                    /\ rreq[r].writes = 1
                    /\ rcb.consecFail > 0

\* the upstream's answer to request r, admitted in the breaker's current
\* generation, arrives in this step: a success or a failure
Outcome(r, success) ==
    /\ RelayStep(r, "forwarded", "done")
    /\ rreq[r].gen = rcb.generation
    /\ classifyStatus(rreq'[r].status) = success

----------------------------------------------------------------------------
(* Claims about the response cache (SpecPipe) *)

\* slot r takes the step from pc a to pc b
PipeStep(r, a, b) == preq[r].pc = a /\ preq'[r].pc = b

\* slot r's request is a POST that the cache layer lets through as a miss
Misses(r) ==
    /\ PipeStep(r, "idle", "limiter")
    /\ CacheLayer
    /\ preq'[r].method = "POST"

\* the entry the latest response was looked up in
Looked(o) == cache[CacheKey(o.body)]

\* C3: a cache write happens only for a POST whose final response status is
\* 200.  A save goroutine exists only for a POST whose spy saw 200; it starts
\* in the step that writes the 200 response; the store's cache keys change
\* only by the write of such a goroutine.
C3_WriteOnlyPost200 ==
    /\ [](\A r \in Slots :
              preq[r].pc = "saving" =>
                  preq[r].method = "POST" /\ preq[r].statusCode = StatusOK)
    /\ [][ /\ \A r \in Slots :
                  preq'[r].pc = "saving" /\ preq[r].pc # "saving" =>
                      /\ preq[r].method = "POST"
                      /\ out'.status = StatusOK
                      /\ preq'[r].data = out'.bytes
           /\ cache' # cache =>
                  \E r \in Slots :
                      /\ preq[r].pc = "saving"
                      /\ preq[r].method = "POST"
                      /\ preq[r].statusCode = StatusOK
                      /\ cache' = [cache EXCEPT ![CacheKey(preq[r].body)] =
                                      [data |-> preq[r].data, expiry |-> now + CacheTTL,
                                       resp |-> preq[r].resp]]
         ]_vars

\* a response of status 429 has just gone out through the spy of a POST, and
\* the store holds what an earlier POST answered 200 left there
C3_Witness ==
    /\ out.status = StatusTooManyRequests
    /\ out.lookup \in {"nil", "error"}
    /\ \A r \in Slots : preq[r].pc # "saving"
    /\ \E k \in CacheKeys : cache[k].expiry > 0 /\ cache[k].resp.status = StatusOK

\* C4 (as stated): the bytes served on a cache hit are the bytes of the
\* upstream's original 200 response, also when the transformer rewrites
\* responses.
C4_HitServesUpstreamBytes ==
    [][ out'.xcache = "HIT" => out'.bytes = Concat(Looked(out').resp.chunks) ]_vars

\* C4 (amended): the bytes served on a cache hit are the bytes the layers
\* inside the cache wrote for the upstream's 200 response they were captured
\* from: the transformer's output when the transformer is enabled, the
\* upstream's own bytes when it is not.  An entry is served only until one
\* hour after it was written.
C4_HitServesCapturedBytes ==
    [][ /\ out'.xcache = "HIT" =>
               LET e == Looked(out') IN
               /\ out'.bytes = e.data
               /\ e.resp.status = StatusOK
               /\ e.data = Delivered(transformCfg, e.resp)
               /\ ~transformCfg.enabled => e.data = Concat(e.resp.chunks)
               /\ now < e.expiry
        /\ \A k \in CacheKeys : cache'[k] # cache[k] => cache'[k].expiry = now + CacheTTL
      ]_vars

\* a hit has just served bytes that differ from the upstream's
C4_Witness ==
    /\ out.xcache = "HIT"
    /\ out.bytes = Looked(out).data
    /\ out.bytes # Concat(Looked(out).resp.chunks)

\* C5: when the lookup finds the key, the response is 200 with X-Cache: HIT
\* and the stored bytes, and no inner layer runs: the limiter's state is left
\* as it was, and the request never takes a slot of the inner layers.
C5_HitBypassesInnerLayers ==
    [][ /\ \A r \in Slots : preq'[r].pc # "idle" => preq'[r].lookup # "hit"
        /\ out'.lookup = "hit" =>
               /\ out'.status = StatusOK
               /\ out'.xcache = "HIT"
               /\ out'.bytes = Looked(out').data
               /\ UNCHANGED <<limiter, tat, preq, cache, varsMore>>
      ]_vars

\* a hit has just been served while the limiter has no token left for the
\* client
C5_Witness ==
    /\ out.lookup = "hit"
    /\ out.status = StatusOK
    /\ ~RateLimit(WatchedClient, "answered").ans.pass

\* C6 (as stated): after a POST that missed has been answered 200 by the
\* upstream, a POST of the same body within the hour is not a miss.
C6_RepeatIsHit ==
    [][ \A r \in Slots : Misses(r) => preq'[r].body \notin answered ]_vars

\* C6 (amended): a POST is answered from the cache, and goes no further,
\* whenever the entry of its body is in the store and the store answers the
\* lookup; the entry is there from the moment the save goroutine's write
\* succeeds until one hour later.  Until the write has succeeded, or if it or
\* the lookup fails, the repeated POST is a miss.
C6_RepeatIsHitOnceSaved ==
    /\ [](\A k \in CacheKeys : cache[k].expiry <= now + CacheTTL)
    /\ [][ /\ \A r \in Slots :
                  Misses(r) =>
                      \/ ~Live(cache[CacheKey(preq'[r].body)], now)
                      \/ preq'[r].lookup = "error"
           /\ out'.lookup = "hit" => Live(Looked(out'), now) /\ out'.xcache = "HIT"
           /\ \A k \in CacheKeys :
                  cache'[k] # cache[k] =>
                      \E r \in Slots : preq[r].pc = "saving" /\ CacheKey(preq[r].body) = k
         ]_vars

\* a POST answered 200 after a miss has been repeated and served from the cache
C6_Witness ==
    /\ out.lookup = "hit"
    /\ out.xcache = "HIT"
    /\ out.body \in answered

\* C7 (as stated): of the requests that missed on one key, at most one is at
\* the upstream at a time.
C7_OneDispatchPerKey ==
    \A b \in Bodies :
        Cardinality({ r \in Slots : /\ preq[r].pc = "upstream"
                                    /\ preq[r].lookup \in {"nil", "error"}
                                    /\ preq[r].body = b }) <= 1

\* C7 (amended): misses are not coalesced; each request that misses is
\* forwarded on its own, and at most once: it reaches the upstream only from
\* the inner layers, and once its response is back it is not forwarded again.
C7_OneDispatchPerMiss ==
    [][ \A r \in Slots :
            /\ preq'[r].pc = "upstream" /\ preq[r].pc # "upstream" => preq[r].pc = "limiter"
            /\ preq[r].pc = "upstream" => preq'[r].pc \in {"upstream", "saving", "idle"}
            /\ preq[r].pc = "saving" => preq'[r].pc \in {"saving", "idle"}
      ]_vars

\* two requests that missed on the same key are at the upstream together
C7_Witness ==
    \E r, q \in Slots :
        /\ r # q
        /\ preq[r].pc = "upstream" /\ preq[q].pc = "upstream"
        /\ preq[r].lookup = "nil" /\ preq[q].lookup = "nil"
        /\ preq[r].body = preq[q].body

\* the upstream's body re-encoded after the response rules and the masking
TransformedBody(cfg, body) ==
    LET data == applyRules(Unmarshal(body), cfg.rules) IN
    Marshal(IF cfg.mask THEN maskSensitiveFields(data) ELSE data)

\* C21: with the transformer enabled, a response of content type
\* application/json reaches the client as the transformed JSON alone, in
\* however many Writes the upstream's body arrives; a body that is not a
\* JSON object reaches the client as the original bytes
C21_TransformedInsteadOfOriginal ==
    [][\A r \in Slots, resp \in UpstreamResponses :
          PipeRespond(r, resp) /\ transformCfg.enabled /\ resp.json
          => out'.bytes = IF ValidObject(Concat(resp.chunks))
                          THEN TransformedBody(transformCfg, Concat(resp.chunks))
                          ELSE Concat(resp.chunks)]_vars

----------------------------------------------------------------------------
(* Claims about the rate limiter (SpecRate) *)

\* the window's length
Window == now - win.start

\* the step is a request of the watched client
WatchedRequest ==
    /\ now' = now
    /\ win'.on = win.on
    /\ verdict'.client = WatchedClient

\* rps = 2, burst = 2
TwoPerSecond == rlCfg = [enabled |-> TRUE, num |-> 2, den |-> 1, burst |-> 2]

\* C8 (as stated): in a window of length W >= 10/rps the requests of the
\* client that were admitted are at most rps * W.
C8_AtMostRateTimesWindow ==
    win.on /\ ~win.errors /\ rlCfg.num > 0 /\ Window * rlCfg.num >= 10 * Second * rlCfg.den
        => win.passed * Second * rlCfg.den <= rlCfg.num * Window

\* C8 (amended): while the store answers, in a window of any length W the
\* requests of the client that were admitted are at most burst + r * W, where
\* r is rps in the in-memory backend and buildLimit's Rate per Period in the
\* distributed one (rps rounded up to a whole number per second for
\* rps >= 1, one per ceil(1/rps) seconds for rps < 1).
C8_AtMostBurstPlusRate ==
    win.on /\ ~win.errors /\ rlCfg.num > 0
        => IF redisOn
           THEN LET limit == buildLimit(rlCfg) IN
                win.passed * limit.period <= limit.burst * limit.period + limit.rate * Window
           ELSE win.passed * Second * rlCfg.den
                    <= ClampBurst(rlCfg.burst) * Second * rlCfg.den + rlCfg.num * Window

\* a window of length at least 10/rps in which more than rps * W requests
\* were admitted
C8_Witness ==
    /\ win.on /\ ~win.errors /\ rlCfg.num > 0
    /\ Window * rlCfg.num >= 10 * Second * rlCfg.den
    /\ win.passed * Second * rlCfg.den > rlCfg.num * Window

\* C9 (as stated): with rps 2 and burst 2, of the requests of the client
\* within 100 ms, starting from a full bucket that no one else draws on, the
\* first two are passed on and the later ones get 429.
C9_TwoPassRestDenied ==
    [][ TwoPerSecond /\ win.on /\ Window <= SmallTick /\ WatchedRequest
        /\ win.full /\ win.alone
            => (verdict'.ans.pass <=> win.passed < 2) ]_vars

\* C9 (amended): with rps 2 and burst 2, of the requests of the client that
\* reach the limiter within 100 ms of a moment at which its bucket is full,
\* with no other request drawing on the bucket and every call of the store
\* answered, the first two are passed on and the later ones get 429.
C9_TwoPassRestDeniedFromFull ==
    [][ ( /\ TwoPerSecond /\ win.on /\ Window <= SmallTick /\ WatchedRequest
          /\ win.full /\ win.alone /\ ~win.errors /\ verdict'.ans.allow # "error" )
            => /\ verdict'.ans.pass <=> win.passed < 2
               /\ verdict'.ans.allow = IF win.passed < 2 THEN "allowed" ELSE "denied"
      ]_vars

\* the third request, a short step after the first two, has been denied
C9_Witness ==
    /\ TwoPerSecond /\ win.on /\ win.full /\ win.alone /\ ~win.errors
    /\ now > win.start /\ Window <= SmallTick
    /\ win.passed = 2
    /\ verdict.client = WatchedClient
    /\ verdict.ans.allow = "denied"

\* C10: in the distributed backend a request whose Allow call returns an
\* error is passed to the next handler; it is not answered 429.
C10_FailOpen == verdict.ans.allow = "error" => redisOn /\ verdict.ans.pass

\* a request has been passed on by a store error although the client's
\* bucket is empty
C10_Witness ==
    /\ verdict.ans.allow = "error"
    /\ verdict.ans.pass
    /\ redisOn
    /\ AllowN(tat[verdict.client], buildLimit(rlCfg), now).allowed = 0

\* the distributed limiter asked the store in this step and the store answered
StoreAnswered ==
    /\ redisOn
    /\ verdict' # verdict
    /\ verdict'.ans.allow \in {"allowed", "denied"}

\* what the store reported to the request of this step: redis_rate's result
Reported == AllowN(tat[verdict'.client], buildLimit(rlCfg), now)

\* C11: in the distributed backend a request for which the store reports
\* Allowed == 0 is answered 429 and not passed to the inner handler, and the
\* answer carries Retry-After exactly when the store's hint is positive: the
\* least whole number of seconds that is not less than the hint
C11_DeniedWithRetryAfter ==
    [][StoreAnswered /\ Reported.allowed = 0 =>
          /\ verdict'.ans.allow = "denied"
          /\ ~verdict'.ans.pass
          /\ (verdict'.ans.retry > 0) <=> (Reported.retry_after > 0)
          /\ Reported.retry_after > 0 =>
                 LET unit == buildLimit(rlCfg).rate * Second IN
                 /\ verdict'.ans.retry * unit >= Reported.retry_after
                 /\ (verdict'.ans.retry - 1) * unit < Reported.retry_after
      ]_vars

\* a request was answered 429 with Retry-After: 2 on a hint that is not a
\* whole number of seconds
C11_Witness ==
    /\ redisOn
    /\ verdict.ans.allow = "denied"
    /\ ~verdict.ans.pass
    /\ verdict.ans.retry = 2
    /\ LET res == AllowN(tat[verdict.client], buildLimit(rlCfg), now) IN
       /\ res.allowed = 0
       /\ res.retry_after % (buildLimit(rlCfg).rate * Second) # 0

----------------------------------------------------------------------------
(* Claims about the configuration store (SpecConfig) *)

\* the snapshots published so far
Published == { loaded[i] : i \in 1..Len(loaded) }

\* the step in which request r leaves the handler at pc a
CfgStep(r, a) == creq[r].pc = a /\ creq'[r].pc # a

\* C12 as stated: the pricing the cost tagger used and the rate limit the
\* limiter used for one request come from one published snapshot
C12_OneSnapshotPerRequest ==
    \A r \in Slots :
        creq[r].pc \in {"transform", "done"} =>
            \E snap \in Published :
                /\ creq[r].costCfg.models = snap.models
                /\ creq[r].limCfg.rl = snap.rl

\* C12, amended: what one call of Get returned to a layer is one published
\* snapshot, whole
C12_OneSnapshotPerGet ==
    \A r \in Slots :
        /\ creq[r].pc \in {"cache", "limiter", "transform", "done"} =>
               creq[r].costCfg \in Published
        /\ creq[r].pc \in {"transform", "done"} => creq[r].limCfg \in Published

\* the cost tagger and the limiter of one request have read different
\* snapshots
C12_Witness ==
    \E r \in Slots :
        /\ creq[r].pc = "transform"
        /\ creq[r].costCfg # creq[r].limCfg
        /\ creq[r].tagged

\* C13: a re-read that fails (the file is not read, or does not decode into
\* a Config) leaves the published snapshot: Get returns afterwards what it
\* returned before
C13_FailedReloadKeepsSnapshot ==
    [][reloads'.n # reloads.n /\ reloads'.last \in {"failed", "unread"} =>
          /\ Get' = Get
          /\ rlCfg' = rlCfg
      ]_vars

\* a reload failed after another one had published a configuration that is
\* not the first, and that configuration is still the published one
C13_Witness ==
    /\ reloads.last = "failed"
    /\ Len(loaded) = 2
    /\ Get = loaded[2]
    /\ Get # loaded[1]

Differs(rl) ==
    limiter.num * rl.den # rl.num * limiter.den \/ limiter.burst # rl.burst

\* the bucket rebuilt for rl with burst b, and the bucket as it is, after
\* the request took its token if there was one
Rebuilt(rl, b) == Allow(NewLimiter(rl, b), now).lim
Kept == Allow(limiter, now).lim

Added ==
    /\ doc.pc = "ruled"
    /\ Len(doc.rules) = 1
    /\ doc.rules[1].type = "add"

\* the map after differs from the map before only along path: every other
\* key is there as before, and the part of the path leads to a map with the
\* same property for the rest of the path (a part that was missing or no map
\* before counts as an empty map before)
RECURSIVE OnlyAlong(_, _, _)
OnlyAlong(before, after, path) ==
    LET part == Head(path) IN
    /\ DOMAIN after = DOMAIN before \cup {part}
    /\ \A k \in DOMAIN before \ {part} : after[k] = before[k]
    /\ Len(path) > 1 =>
           /\ after[part].t = "object"
           /\ OnlyAlong(IF part \in DOMAIN before /\ before[part].t = "object"
                        THEN before[part].kids ELSE NoKids,
                        after[part].kids, Tail(path))

\* C32 (as stated): after an add rule with path p and value v the path p
\* resolves to v, and no key outside p is added, changed or removed
C32_AddSetsPathOnly ==
    Added =>
        /\ getValueAtPath(doc.result, doc.rules[1].path) = doc.rules[1].value
        /\ OnlyAlong(doc.data, doc.result, doc.rules[1].path)

\* the tracker of target t gains one sample in this step: the window is the
\* old one, without its oldest sample if it was full, and one sample more
OneSample(t) ==
    LET old == lat.samples[t]
        new == lat'.samples[t]
        kept == IF Len(old) = WindowSize THEN Tail(old) ELSE old
    IN  /\ Len(new) = Len(kept) + 1
        /\ SubSeq(new, 1, Len(kept)) = kept
        /\ new[Len(new)] \in Durations
        /\ \A u \in Targets \ {t} : lat'.samples[u] = lat.samples[u]

\* request r returns from ServeHTTP in this step, having had a target
Returns(r) ==
    /\ lbreq[r].pc \in {"selected", "admitted"}
    /\ lbreq'[r].pc = "done"

\* C34: every request for which a target was selected appends exactly one
\* sample to that target's tracker, when it returns, whether the target
\* answered (with any status or not at all) or the breaker refused it
\* without a forward; no other step changes a tracker; a tracker never holds
\* more than 100 samples, the oldest leaving a full one
C34_OneSamplePerSelectedRequest ==
    [][/\ \A r \in Reqs : Returns(r) => OneSample(lbreq[r].target)
       /\ (\A r \in Reqs : ~Returns(r)) => lat'.samples = lat.samples
       /\ \A t \in Targets : Len(lat'.samples[t]) <= WindowSize]_vars

\* C34 witness: a full tracker has lost its oldest sample to the sample of a
\* request the open breaker refused
C34_Witness ==
    \E t \in Targets, r \in Reqs :
        /\ Len(lat.samples[t]) = WindowSize
        /\ lat.samples[t][1] = 2
        /\ lbreq[r].pc = "done" /\ lbreq[r].status = StatusServiceUnavailable
        /\ lbreq[r].target = t
        /\ cb[t].state = "open"

\* the load balancer itself answers request r with 503 in this step: no
\* target passed the filter, or the breaker of the selected target refused
Answers503(r) ==
    /\ lbreq[r].pc \in {"idle", "done", "selected"}
    /\ lbreq'[r] # lbreq[r]
    /\ lbreq'[r].pc = "done"
    /\ lbreq'[r].status = StatusServiceUnavailable

\* a target is healthy with its breaker CLOSED
SomeTargetClosed == \E t \in Targets : healthy[t] /\ cb[t].state = "closed"

\* C38 (as stated): the load balancer answers 503 only when no target is
\* selectable: while a target is healthy with its breaker CLOSED, a request
\* is not answered 503 by the load balancer
C38_No503WhileTargetClosed ==
    [][\A r \in Reqs : Answers503(r) => ~SomeTargetClosed]_vars

----------------------------------------------------------------------------
(* Claims about the request recorder (SpecLog) *)

\* the recorder has written the entry of a request AuthMiddleware let pass
\* with its key
LoggedAuthenticated == logreq.pc = "logged" /\ logreq.ctx.hasKey

EntryCarriesKey ==
    /\ logreq.entry.APIKey = truncateKey(logreq.key)
    /\ logreq.entry.UserID = UserOf(logreq.key)
EntryCarriesCost ==
    /\ logreq.entry.TokensUsed = logreq.ctx.tokens
    /\ logreq.entry.CostUSD = logreq.ctx.cost
EntryCarriesCacheHit == logreq.entry.CacheHit <=> logreq.by = "cache"

\* C28 (as stated): the entry the recorder persists for an authenticated
\* request carries the key (as truncateKey leaves it) and the user id the
\* authenticator put into the context, the token count and the cost the
\* cost tagger put there, and a cache-hit flag that is true exactly when the
\* cache answered
C28_EntryCarriesKeyCostAndCacheHit ==
    LoggedAuthenticated =>
        EntryCarriesKey /\ EntryCarriesCost /\ EntryCarriesCacheHit

----------------------------------------------------------------------------
(* Claims about buildLimit (SpecLimit) *)

\* buildLimit has run on a configuration with rps > 0
Built == blim.built /\ blim.cfg.num > 0

\* k = ceil(n / d): the least whole number with k * d >= n
IsCeil(k, n, d) == k * d >= n /\ (k - 1) * d < n

\* Rate, Period and Burst as the claim gives them
ClaimedLimit ==
    LET c == blim.cfg
        l == blim.out
    IN  /\ l.ok
        /\ l.burst = (IF c.burst > 1 THEN c.burst ELSE 1)
        /\ c.num < c.den =>
               /\ l.rate = 1
               /\ l.period % Second = 0
               /\ IsCeil(l.period \div Second, c.den, c.num)
        /\ c.num >= c.den =>
               /\ l.period = Second
               /\ IsCeil(l.rate, c.num, c.den)

\* Rate per Period is at most rps = num / den per second
RateWithinRps ==
    blim.out.rate * blim.cfg.den * Second <= blim.cfg.num * blim.out.period

\* C31 (as stated): for rps > 0 buildLimit returns a period of ceil(1/rps)
\* seconds with rate 1 when rps < 1, a period of 1 s with rate ceil(rps) when
\* rps >= 1, and a burst of max(burst, 1), and the rate it admits never
\* exceeds rps
C31_LimitNeverExceedsRps == Built => ClaimedLimit /\ RateWithinRps

\* C31 (amended): period, rate and burst are as stated; the rate does not
\* exceed rps when rps < 1 or rps is a whole number, and for a fractional
\* rps above 1 it is ceil(rps) per second, which is more than rps and less
\* than rps + 1
C31_LimitRoundsRpsUp ==
    Built =>
        /\ ClaimedLimit
        /\ IF blim.cfg.num < blim.cfg.den \/ blim.cfg.num % blim.cfg.den = 0
           THEN RateWithinRps
           ELSE /\ blim.out.rate * blim.cfg.den > blim.cfg.num
                /\ blim.out.rate * blim.cfg.den < blim.cfg.num + blim.cfg.den

\* C31 witness: rps 3/2 with burst 0 became 2 per second with burst 1
C31_Witness ==
    /\ Built
    /\ blim.cfg.num = 3 /\ blim.cfg.den = 2 /\ blim.cfg.burst = 0
    /\ blim.out.rate = 2 /\ blim.out.period = Second /\ blim.out.burst = 1

----------------------------------------------------------------------------
(* Claims about the weighted strategy (SpecDraw) *)

\* weighted has returned a target
Drawn == draw.picked # 0

\* among the draws 0..total-1, as many select a target as its weight is
SplitByWeight ==
    \A i \in 1..Len(draw.ws) :
        Cardinality({ d \in 0..(Sum(draw.ws) - 1) : weighted(draw.ws, d) = i })
            = draw.ws[i]

\* the walk in the words of the specification: subtract the weights until
\* what is left is <= 0
RECURSIVE WalkUntilNotPositive(_, _, _)
WalkUntilNotPositive(ws, i, left) ==
    IF i > Len(ws) THEN 1
    ELSE IF left - ws[i] <= 0 THEN i
    ELSE WalkUntilNotPositive(ws, i + 1, left - ws[i])

\* C33 (as stated): as many draws select a target as its weight is, and the
\* walk that subtracts until <= 0 selects the target the code selects
C33_WeightedAsWalkUntilNotPositive ==
    Drawn =>
        /\ SplitByWeight
        /\ draw.picked = WalkUntilNotPositive(draw.ws, 1, draw.random)

\* C33 (amended): as many draws select a target as its weight is; the code
\* subtracts until what is left is < 0, that is, it selects the first target
\* for which the draw is below the sum of the weights up to and including it
C33_WeightedSplitsByWeight ==
    Drawn =>
        /\ SplitByWeight
        /\ draw.random < Sum(SubSeq(draw.ws, 1, draw.picked))
        /\ draw.random >= Sum(SubSeq(draw.ws, 1, draw.picked - 1))

\* C33 witness: weights 3 and 1, the draw 3 selects the second target
C33_Witness ==
    /\ draw.ws = <<3, 1>>
    /\ draw.random = 3
    /\ draw.picked = 2

----------------------------------------------------------------------------
(* Claims about the API key's record (SpecKey) *)

\* no incrementUsage is running
IncrementsDone == \A r \in Reqs : areq[r].pc = "idle"

\* C35 (as stated): the stored usage counter never decreases, and once all
\* increments have completed it equals the number of requests the
\* authenticator admitted for the key
C35_UsageCountsAdmitted ==
    /\ [][apikey'.Used >= apikey.Used]_vars
    /\ [](IncrementsDone => apikey.Used = admitted)

\* RevokeKey has stored the key as inactive
Revoked == admin.pc = "revoked"

\* C36 (as stated): once RevokeKey has stored the key as inactive the record
\* stays inactive and no later request with the key is admitted
C36_RevokedStaysRevoked ==
    /\ [](Revoked => ~apikey.Active)
    /\ [][Revoked => admitted' = admitted]_vars

\* C37 (as stated): for a key with quota Q > 0 the authenticator admits at
\* most Q requests
C37_AdmittedWithinQuota ==
    apikey.Quota > 0 => admitted <= apikey.Quota

\* the bucket has been built with the (rps, burst) of the published
\* snapshot
BuiltForSnapshot == limiter.built /\ ~Differs(store.rl)

\* C39 (as stated): once the bucket has been rebuilt for the published
\* (rps, burst), a request that read the previous snapshot before the reload
\* does not rebuild it with the old parameters or refill it: every request
\* that enters the critical section leaves the bucket as it is, but for its
\* own token if it is limited
C39_RebuiltOncePerChange ==
    [][\A r \in Slots :
          CfgStep(r, "lock") /\ BuiltForSnapshot =>
              limiter' \in {limiter, Kept}]_vars

----------------------------------------------------------------------------
(* Claims about the cache behind AuthMiddleware (SpecShare) *)

\* the request in the chain is answered from the store in this step
ServedFromCache == shared.req.pc = "cache" /\ out'.xcache = "HIT"

\* the request in the chain is a POST the store's lookup finds nothing for
MissedCache ==
    /\ shared.req.pc = "cache" /\ shared.req.method = "POST"
    /\ shared'.req.pc = "inner" /\ shared'.req.lookup = "nil"

\* C40: whether a POST is served from the cache, and which bytes, depends
\* only on its body: it is served the bytes last saved for a POST of the same
\* body, whatever the path and the key of either request, and it misses only
\* if nothing was saved for its body; with authentication enabled a request
\* served from the cache has passed AuthMiddleware with a valid key
C40_CacheKeyedByBodyBehindAuth ==
    [][/\ ServedFromCache =>
            /\ shared.req.method = "POST"
            /\ shared.saved[shared.req.body].saved
            /\ out'.bytes = shared.saved[shared.req.body].data
            /\ out'.status = StatusOK
            /\ shared.authOn => shared.req.auth = "valid"
       /\ MissedCache => ~shared.saved[shared.req.body].saved]_vars

\* with authentication enabled, a POST to a path the transformer blocks is
\* served the response saved for a POST of the same body to another path by
\* another key
C40_Witness ==
    /\ shared.authOn
    /\ out.xcache = "HIT" /\ shared.req.pc = "idle"
    /\ shared.saved[shared.req.body].saved
    /\ out.bytes = shared.saved[shared.req.body].data
    /\ shared.req.path # shared.saved[shared.req.body].path
    /\ shared.req.key # shared.saved[shared.req.body].key
    /\ ~PathAllowed(transformCfg, shared.req.path)
    /\ \E b \in KeyedBodies : b # shared.req.body /\ shared.saved[b].saved
                              /\ shared.saved[b].data # out.bytes

----------------------------------------------------------------------------
(* Claims about the chain of handlers (SpecChain) *)

\* the order of the layers, as claimed
ClaimedOrder ==
    <<"logger", "cost", "recorder", "auth", "cache", "limiter", "transform",
      "dispatcher">>

\* the handlers that have run are the first ones of the chain, in its order
RanInOrder ==
    LET composed == SelectSeq(ClaimedOrder, InChain) IN
    /\ Len(chain.ran) <= Len(composed)
    /\ chain.ran = SubSeq(composed, 1, Len(chain.ran))

\* C15: the handlers of one request run in the order request logger, cost
\* tagger, request recorder, authenticator, cache, rate limiter, transformer,
\* dispatcher; once a handler before the dispatcher has written a response
\* it is the last one that ran, and the request is not forwarded
C15_OrderAndShortCircuit ==
    /\ RanInOrder
    /\ chain.by \notin {"none", "dispatcher"} =>
           /\ chain.pc = "answered"
           /\ chain.ran[Len(chain.ran)] = chain.by
           /\ \A i \in 1..Len(chain.ran) : chain.ran[i] # "dispatcher"

\* the limiter has answered 429 in a chain with every optional handler, and
\* the handlers outside it have run
C15_Witness ==
    /\ chain.by = "limiter"
    /\ chain.status = StatusTooManyRequests
    /\ chain.ran = <<"logger", "cost", "recorder", "auth", "cache", "limiter">>
    /\ transformCfg.enabled

\* C16: the body the dispatcher reads is the body the client sent, unless
\* the transformer has changed it
C16_BodyReachesDispatcher ==
    chain.pc = "forwarded" /\ ~chain.mutated => chain.body = chain.sent

\* a POST with a JSON body has been forwarded after the cost tagger, the
\* recorder and the cache have read it and a transformer with request rules
\* has left it as it was
C16_Witness ==
    /\ chain.pc = "forwarded"
    /\ chain.method = "POST"
    /\ chain.sent = TextBody("hi")
    /\ chain.ran = ClaimedOrder
    /\ transformCfg.requestRules # <<>>
    /\ ~chain.mutated
    /\ chain.body = chain.sent

\* C20 as stated, of the configured lists: a path that matches a blocked
\* pattern is answered 403; with a non-empty allowed list a path that
\* matches none of its patterns is answered 403; with both lists empty the
\* request is admitted; a request answered 403 keeps its headers and body
\* and is not forwarded
C20_PathFilter ==
    [][chain.pc = "transform" /\ chain'.pc # "transform" =>
          LET cfg == transformCfg
              denied == chain'.status = StatusForbidden
          IN  /\ (\E p \in cfg.blocked : Matches(p, chain.path)) => denied
              /\ (cfg.allowed # {} /\ \A p \in cfg.allowed : ~Matches(p, chain.path))
                     => denied
              /\ (cfg.allowed = {} /\ cfg.blocked = {}) => ~denied
              /\ denied => /\ chain'.headers = chain.headers
                           /\ chain'.body = chain.body
                           /\ chain'.pc = "answered"
      ]_vars

----------------------------------------------------------------------------
(* Claims about the transformer's rules and masking (SpecMask) *)

\* the keys of the model whose lower-case name contains password, secret,
\* token or key
NamedSensitive == {"api_key", "token"}

\* every sensitive key of v, at any depth outside the value of another
\* sensitive key, has the value ***MASKED***
RECURSIVE KeysMasked(_)
KeysMasked(v) ==
    CASE v.t = "object" ->
             \A k \in DOMAIN v.kids :
                 IF k \in NamedSensitive
                 THEN v.kids[k] = String(<<"***MASKED***">>)
                 ELSE KeysMasked(v.kids[k])
      [] v.t = "array" -> \A k \in DOMAIN v.kids : KeysMasked(v.kids[k])
      [] OTHER -> TRUE

\* v has a sensitive key at depth 2 or more
RECURSIVE HasSensitiveKey(_)
HasSensitiveKey(v) ==
    /\ v.t \in {"object", "array"}
    /\ \E k \in DOMAIN v.kids :
           (v.t = "object" /\ k \in NamedSensitive) \/ HasSensitiveKey(v.kids[k])

\* C17: after the transformation with masking enabled every key at any
\* depth, in maps inside arrays too, whose name contains password, secret,
\* token or key has the value ***MASKED***
C17_SensitiveKeysMasked ==
    doc.pc = "done" /\ doc.mask => KeysMasked(Object(doc.result))

\* a body with an api_key in a map inside an array has been masked
C17_Witness ==
    /\ doc.pc = "done"
    /\ doc.mask
    /\ "messages" \in DOMAIN doc.data
    /\ HasSensitiveKey(doc.data["messages"])
    /\ doc.result # doc.data
    /\ doc.result["messages"].kids["0"].kids["api_key"] = String(<<"***MASKED***">>)

\* no string of v under a key that is not sensitive has a match of one of
\* the five patterns left
RECURSIVE NoMatchLeft(_)
NoMatchLeft(v) ==
    CASE v.t = "string" ->
             \A i \in 1..Len(v.s) :
                 v.s[i] \notin {"<email>", "<phone>", "<ssn>", "<card>", "<key32>"}
      [] v.t \in {"object", "array"} ->
             \A k \in DOMAIN v.kids :
                 (v.t = "object" /\ k \in NamedSensitive) \/ NoMatchLeft(v.kids[k])
      [] OTHER -> TRUE

\* C18: after the transformation with masking enabled no string under a key
\* that is not sensitive contains a match of the e-mail, phone, SSN, card or
\* 32-character-key pattern
C18_PatternsMasked ==
    doc.pc = "done" /\ doc.mask => NoMatchLeft(Object(doc.result))

\* the body {"messages":[{"content":"abcd1234efgh"}]}
C19_Body ==
    "messages" :>
        Array("0" :> Object("content" :>
            String(<<"a", "b", "c", "d", "1", "2", "3", "4", "e", "f", "g", "h">>)))

\* C19: the mask rule with an empty pattern and the path messages.0.content
\* turns the addressed string of that body into its first 4 characters,
\* ***, and its last 4 characters
C19_MaskThroughArrayIndex ==
    /\ doc.pc \in {"ruled", "done"}
    /\ doc.data = C19_Body
    /\ doc.rules = << MaskRule(<<"messages", "0", "content">>, {}) >>
    => doc.result["messages"].kids["0"].kids["content"] =
           String(<<"a", "b", "c", "d", "*", "*", "*", "e", "f", "g", "h">>)

====
